---- MODULE Spec2Model ----
(***************************************************************************)
(* A model of one-schema: the JSON-Schema tree walker (json-schema.ts),    *)
(* the contract validator and the assumption pipeline (meta-schema.ts),    *)
(* the Koa integration (route registration, the handler of a route,        *)
(* OneSchemaRouter.declare), the OpenAPI conversions (openapi.ts) and the  *)
(* generated axios client with its paginate helper.                        *)
(*                                                                         *)
(* Representation.                                                         *)
(*  - A string the code parses (an endpoint key, a $ref, a property or     *)
(*    endpoint name) is a sequence of one-character strings, so that       *)
(*    split / startsWith / replace / RegExp.test are computed.             *)
(*  - A JSON object is a record; a key that may be missing is a record     *)
(*    [st, v] with st "absent" (no such key), "undefined" (key present,    *)
(*    value undefined: only JavaScript object literals produce it) or      *)
(*    "some".  An ordered map is a sequence of <<key, value>> pairs.       *)
(*  - Object identity is abstracted by the field fresh: FALSE for an       *)
(*    object that existed before the call under study (it belongs to the   *)
(*    caller), TRUE for one allocated during the call.                     *)
(***************************************************************************)
EXTENDS Naturals, Sequences, FiniteSets, TLC

VARIABLES
    spec,       \* the caller's contract object (OneSchemaDefinition)
    spec0,      \* history: the value of spec when the behaviour started
    file,       \* the document stored in the schema file, or NoFile
    pc,         \* position of the operation in progress
    flags,      \* the SchemaAssumptions of the call in progress
    copy,       \* withAssumptions' local `copy`
    result,     \* what the finished operation returned
    verdict,    \* how the finished operation ended: ok or the error thrown
    routes,     \* the router's route table: <<method, path>> pairs
    input,      \* the other argument of the operation: a schema node, an
                \* OpenAPI document, the data of a client call, a run of
                \* paginate or of a handler, a router config; or NoInput
    output      \* what the operation built: a schema node, a composite
                \* schema, an OpenAPI document, a request, the state of
                \* paginate, a Koa context, a router's schema; or NoOutput

vars == <<spec, spec0, file, pc, flags, copy, result, verdict, routes,
         input, output>>

----------------------------------------------------------------------------
(* Optional keys *)

Absent == [st |-> "absent", v |-> <<>>]
Undefined == [st |-> "undefined", v |-> <<>>]
Some(x) == [st |-> "some", v |-> x]
Null == [st |-> "null", v |-> <<>>]
NoItems == [st |-> "absent", tuple |-> FALSE, v |-> <<>>]
UndefinedItems == [st |-> "undefined", tuple |-> FALSE, v |-> <<>>]

\* JSON.stringify drops a key whose value is undefined
Jsonify(o) == IF o.st = "undefined" THEN Absent ELSE o

----------------------------------------------------------------------------
(* Strings *)

RECURSIVE IndexOf(_, _, _)
\* the least index >= i of character c in s, or 0
IndexOf(s, c, i) ==
    IF i > Len(s) THEN 0
    ELSE IF s[i] = c THEN i
    ELSE IndexOf(s, c, i + 1)

RECURSIVE split(_, _)
\* String.prototype.split with a one-character separator
split(s, sep) ==
    LET i == IndexOf(s, sep, 1)
    IN IF i = 0 THEN <<s>>
       ELSE <<SubSeq(s, 1, i - 1)>> \o split(SubSeq(s, i + 1, Len(s)), sep)

\* part.startsWith(c)
startsWith(s, c) == Len(s) >= 1 /\ s[1] = c

\* part.replace(c, ''): removes the first occurrence of c
replaceFirst(s, c) ==
    LET i == IndexOf(s, c, 1)
    IN IF i = 0 THEN s ELSE SubSeq(s, 1, i - 1) \o SubSeq(s, i + 1, Len(s))

RECURSIVE join(_, _)
\* Array.prototype.join with a one-character separator
join(parts, sep) ==
    IF Len(parts) = 0 THEN <<>>
    ELSE IF Len(parts) = 1 THEN parts[1]
    ELSE parts[1] \o <<sep>> \o join(Tail(parts), sep)

RECURSIVE replaceAll(_, _, _)
\* s.replace(/pattern/g, replacement)
replaceAll(s, pattern, replacement) ==
    IF Len(s) < Len(pattern) THEN s
    ELSE IF SubSeq(s, 1, Len(pattern)) = pattern
         THEN replacement \o replaceAll(SubSeq(s, Len(pattern) + 1, Len(s)),
                                        pattern, replacement)
         ELSE <<Head(s)>> \o replaceAll(Tail(s), pattern, replacement)

UpperCase ==
    <<"A","B","C","D","E","F","G","H","I","J","K","L","M",
      "N","O","P","Q","R","S","T","U","V","W","X","Y","Z">>
LowerCase ==
    <<"a","b","c","d","e","f","g","h","i","j","k","l","m",
      "n","o","p","q","r","s","t","u","v","w","x","y","z">>

\* the characters of s with those of alphabet `from` taken to alphabet `to`
recase(s, from, to) ==
    [i \in DOMAIN s |-> IF IndexOf(from, s[i], 1) = 0 THEN s[i]
                        ELSE to[IndexOf(from, s[i], 1)]]
toLowerCase(s) == recase(s, UpperCase, LowerCase)
toUpperCase(s) == recase(s, LowerCase, UpperCase)

\* the least index at which pattern occurs in s, or 0
indexOf(s, pattern) ==
    LET at == { i \in 1..(Len(s) - Len(pattern) + 1) :
                  SubSeq(s, i, i + Len(pattern) - 1) = pattern }
    IN IF at = {} THEN 0 ELSE CHOOSE i \in at : \A j \in at : i <= j

\* s.replace(pattern, replacement) with a string pattern: the first
\* occurrence only
replace(s, pattern, replacement) ==
    IF indexOf(s, pattern) = 0 THEN s
    ELSE SubSeq(s, 1, indexOf(s, pattern) - 1) \o replacement
         \o SubSeq(s, indexOf(s, pattern) + Len(pattern), Len(s))

\* s.includes(pattern)
includes(s, pattern) == indexOf(s, pattern) # 0

RECURSIVE Concat(_)
\* the sequences of a sequence, one after the other
Concat(seqs) == IF seqs = <<>> THEN <<>> ELSE Head(seqs) \o Concat(Tail(seqs))

Keys(map) == [i \in DOMAIN map |-> map[i][1]]
Range(seq) == {seq[i] : i \in DOMAIN seq}
HasKey(map, k) == \E i \in DOMAIN map : map[i][1] = k
Lookup(map, k) == map[CHOOSE i \in DOMAIN map : map[i][1] = k][2]

\* the object built by { ...accum, [key]: value } or obj[key] = value: a key stays
\* where it was first written and holds the value written last
ObjectOf(entries) ==
    LET first == SelectSeq([i \in DOMAIN entries |-> i],
                           LAMBDA i : \A j \in 1..(i - 1) :
                                         entries[j][1] # entries[i][1])
        last(k) == CHOOSE i \in DOMAIN entries :
                      /\ entries[i][1] = k
                      /\ \A j \in (i + 1)..Len(entries) : entries[j][1] # k
    IN [n \in DOMAIN first |->
           <<entries[first[n]][1], entries[last(entries[first[n]][1])][2]>>]

----------------------------------------------------------------------------
(* Schema nodes (JSONSchema4) *)

\* the object literal {}
EmptySchema ==
    [fresh |-> TRUE, type |-> "absent", ref |-> Absent,
     additionalProperties |-> "absent", optional |-> "absent",
     required |-> Absent, properties |-> Absent, items |-> NoItems,
     anyOf |-> Absent, oneOf |-> Absent, allOf |-> Absent]

Values(map) == [i \in DOMAIN map |-> map[i][2]]

\* the nodes directly below a node, in the order the transformer visits them
Children(n) ==
    Values(n.properties.v) \o n.items.v \o n.anyOf.v \o n.oneOf.v \o n.allOf.v

IsContract(x) == "Endpoints" \in DOMAIN x
IsEndpoint(x) == "Response" \in DOMAIN x

\* a bug that drops the copy: the argument itself is handed back
deepCopyAliased(obj) == obj

RECURSIVE deepCopy(_)
\* JSON.parse(JSON.stringify(obj)): every object is allocated anew and keys
\* whose value is undefined are gone
deepCopy(obj) ==
    LET list(l) == [i \in DOMAIN l |-> deepCopy(l[i])]
        map(m) == [i \in DOMAIN m |-> <<m[i][1], deepCopy(m[i][2])>>]
        opt(o, f(_)) == IF o.st = "some" THEN Some(f(o.v)) ELSE Absent
    IN IF IsContract(obj) THEN
           [obj EXCEPT !.fresh = TRUE,
                       !.Resources = opt(@, map),
                       !.Endpoints = opt(@, map)]
       ELSE IF IsEndpoint(obj) THEN
           [obj EXCEPT !.Name = Jsonify(@),
                       !.Description = Jsonify(@),
                       !.Request = opt(@, list),
                       !.Response = opt(@, list)]
       ELSE
           [obj EXCEPT !.fresh = TRUE,
                       !.ref = Jsonify(@),
                       !.additionalProperties =
                           IF @ = "undefined" THEN "absent" ELSE @,
                       !.optional = IF @ = "undefined" THEN "absent" ELSE @,
                       !.required = Jsonify(@),
                       !.properties = opt(@, map),
                       !.items = IF @.st = "some"
                                 THEN [@ EXCEPT !.v = list(@)]
                                 ELSE NoItems,
                       !.anyOf = opt(@, list),
                       !.oneOf = opt(@, list),
                       !.allOf = opt(@, list)]

----------------------------------------------------------------------------
(* Errors and results *)

NoError == [kind |-> "none", ref |-> <<>>, endpoint |-> <<>>, param |-> <<>>]
Threw(kind) == [NoError EXCEPT !.kind = kind]
InvalidRef(ref) == [NoError EXCEPT !.kind = "InvalidRef", !.ref = ref]

Ok(v) == [err |-> NoError, v |-> v]
Fail(e) == [err |-> e, v |-> EmptySchema]

\* the first exception raised while evaluating rs[1], rs[2], ... in order
FirstError(rs) ==
    IF \A i \in DOMAIN rs : rs[i].err = NoError THEN NoError
    ELSE rs[CHOOSE i \in DOMAIN rs :
                /\ rs[i].err # NoError
                /\ \A j \in 1..(i - 1) : rs[j].err = NoError].err

\* names that every JavaScript object answers to through Object.prototype
\* (..., toString, valueOf, hasOwnProperty): what `name in obj` and obj[name]
\* find although obj has no such own key
ObjectPrototypeKeys == {<<"c","o","n","s","t","r","u","c","t","o","r">>}

----------------------------------------------------------------------------
(* json-schema.ts *)

\* a bug in the order of the spread: { ...schema, additionalProperties: false }
noAdditionalPropertiesOverriding(schema) ==
    IF schema.type = "object"
    THEN [schema EXCEPT !.fresh = TRUE, !.additionalProperties = "false"]
    ELSE schema

\* (schema) => schema.type === 'object'
\*               ? { additionalProperties: false, ...schema } : schema
noAdditionalPropertiesOnObjects(schema) ==
    IF schema.type = "object"
    THEN [schema EXCEPT !.fresh = TRUE,
                        !.additionalProperties =
                            IF @ = "absent" THEN "false" ELSE @]
    ELSE schema

\* Object.keys(schema.properties).filter(
\*     (name) => schema.properties[name].optional !== true)
requiredNames(properties) ==
    Keys(SelectSeq(properties, LAMBDA kv : kv[2].optional # "true"))

\* a bug in the order of the spread: { ...schema, required: [...] }
requiredOverriding(schema) ==
    IF schema.type = "object" /\ schema.properties.st = "some"
    THEN [schema EXCEPT !.fresh = TRUE,
                        !.required = Some(requiredNames(schema.properties.v))]
    ELSE schema

\* a bug that strips the marker in the same visit that computes required:
\* the children of a node are visited, and stripped, before the node
requiredAndPruned(schema) ==
    LET pruned == [schema EXCEPT !.fresh = TRUE, !.optional = "absent"]
    IN IF schema.type = "object" /\ schema.properties.st = "some"
       THEN [pruned EXCEPT !.required =
                               IF @.st = "absent"
                               THEN Some(requiredNames(schema.properties.v))
                               ELSE @]
       ELSE pruned

\* (schema) => schema.type === 'object' && schema.properties
\*               ? { required: ..., ...schema } : schema
objectPropertiesRequiredByDefault(schema) ==
    IF schema.type = "object" /\ schema.properties.st = "some"
    THEN [schema EXCEPT !.fresh = TRUE,
                        !.required =
                            IF @.st = "absent"
                            THEN Some(requiredNames(schema.properties.v))
                            ELSE @]
    ELSE schema

\* (schema) => deepCopy({ ...schema, optional: undefined })
pruneOptional(schema) ==
    deepCopy([schema EXCEPT !.fresh = TRUE, !.optional = "undefined"])

RECURSIVE transformJSONSchema(_, _, _, _)

\* the callback of withResolvedDefinitions; depth counts the resources
\* entered on the way to this node
resolveRef(schema, definitions, depth) ==
    LET \* const resourceName = schema.$ref.split('/')[2]
        name(parts) == IF Len(parts) >= 3 THEN parts[3] ELSE <<>>
        lookup(resourceName) ==
            IF resourceName = <<>> THEN Fail(InvalidRef(schema.ref.v))
            ELSE IF HasKey(definitions, resourceName) THEN
                \* a chain that enters more resources than there are has
                \* entered one twice: the recursion never ends and the
                \* call stack overflows
                IF depth >= Len(definitions) THEN Fail(Threw("RangeError"))
                ELSE transformJSONSchema(Lookup(definitions, resourceName),
                                         "resolve", definitions, depth + 1)
            ELSE IF resourceName \in ObjectPrototypeKeys THEN
                \* definitions[name] is an inherited function: truthy, and
                \* JSON.parse(JSON.stringify(fn)) throws
                Fail(Threw("SyntaxError"))
            ELSE Fail(InvalidRef(schema.ref.v))
    IN IF ~(schema.ref.st = "some" /\ schema.ref.v # <<>>) THEN Ok(schema)
       ELSE lookup(name(split(schema.ref.v, "/")))

\* the last name of the node's required list is a mark of recordVisit
Marked(n) ==
    /\ n.required.st = "some" /\ n.required.v # <<>>
    /\ n.required.v[Len(n.required.v)] \in {<<"*">>, <<"!">>}

\* a callback that records its call in the node: it appends to `required`
\* the mark "*" when every child of the node it is handed carries a mark,
\* "!" when one does not, and gives a node without anyOf a new child
recordVisit(schema) ==
    [schema EXCEPT
       !.required =
           Some((IF @.st = "some" THEN @.v ELSE <<>>)
                \o << IF \A c \in Range(Children(schema)) : Marked(c)
                      THEN <<"*">> ELSE <<"!">> >>),
       !.anyOf = IF @.st = "some" THEN @ ELSE Some(<<EmptySchema>>)]

applyTransform(transform, schema, definitions, depth) ==
    CASE transform = "noAdditionalPropertiesOnObjects" ->
             Ok(noAdditionalPropertiesOnObjects(schema))
      [] transform = "objectPropertiesRequiredByDefault" ->
             Ok(objectPropertiesRequiredByDefault(schema))
      [] transform = "pruneOptional" -> Ok(pruneOptional(schema))
      [] transform = "resolve" -> resolveRef(schema, definitions, depth)
      [] transform = "identity" -> Ok(schema)
      [] transform = "recordVisit" -> Ok(recordVisit(schema))
      [] OTHER -> Ok(schema)

\* a bug that hands the root itself to the callback: no copy, no descent
transformRoot(root, transform, definitions, depth) ==
    applyTransform(transform, root, definitions, depth)

\* copy, rewrite the children (properties, items, anyOf, oneOf, allOf, in
\* that order), hand the node with its rewritten children to the callback,
\* copy what it returns
transformJSONSchema(root, transform, definitions, depth) ==
    LET sub(l) == [i \in DOMAIN l |->
                      transformJSONSchema(l[i], transform, definitions, depth)]
        vs(rs) == [i \in DOMAIN rs |-> rs[i].v]
        lst(o, rs) == IF o.st = "some" THEN Some(vs(rs)) ELSE Undefined
        \* the object literal { ...copy, properties: .., items: .., .. }
        literal(c, P, I, A, O, L) ==
            [c EXCEPT
               !.fresh = TRUE,
               !.properties =
                   IF @.st = "some"
                   THEN Some([i \in DOMAIN @.v |-> <<@.v[i][1], P[i].v>>])
                   ELSE Undefined,
               !.items = IF @.st = "some" THEN [@ EXCEPT !.v = vs(I)]
                         ELSE UndefinedItems,
               !.anyOf = lst(@, A),
               !.oneOf = lst(@, O),
               !.allOf = lst(@, L)]
        \* deepCopy(transform(literal)), unless something threw before
        finish(e, arg) ==
            IF e # NoError THEN Fail(e)
            ELSE LET copied(r) == IF r.err # NoError THEN r
                                  ELSE Ok(deepCopy(r.v))
                 IN copied(applyTransform(transform, arg, definitions, depth))
        children(c, P, I, A, O, L) ==
            finish(FirstError(P \o I \o A \o O \o L), literal(c, P, I, A, O, L))
        walk(c) ==
            children(c, sub(Values(c.properties.v)), sub(c.items.v),
                     sub(c.anyOf.v), sub(c.oneOf.v), sub(c.allOf.v))
    IN walk(deepCopy(root))

withResolvedDefinitions(root, definitions) ==
    transformJSONSchema(root, "resolve", definitions, 0)

----------------------------------------------------------------------------
(* meta-schema.ts: validation *)

\* a bug that keeps the colon of a path segment in the parameter's name
getPathParamsWithColon(name) ==
    SelectSeq(split(split(name, " ")[2], "/"),
              LAMBDA part : startsWith(part, ":"))

\* name.split(' ')[1].split('/')
\*     .filter((part) => part.startsWith(':'))
\*     .map((part) => part.replace(':', ''))
\* (name.split(' ')[1] is undefined for a key without a space: see HasPath)
getPathParams(name) ==
    LET path == split(name, " ")[2]
        params == SelectSeq(split(path, "/"), LAMBDA part : startsWith(part, ":"))
    IN [i \in DOMAIN params |-> replaceFirst(params[i], ":")]

HasPath(name) == Len(split(name, " ")) >= 2

Letters ==
    {"a","b","c","d","e","f","g","h","i","j","k","l","m",
     "n","o","p","q","r","s","t","u","v","w","x","y","z",
     "A","B","C","D","E","F","G","H","I","J","K","L","M",
     "N","O","P","Q","R","S","T","U","V","W","X","Y","Z"}
Digits == {"0","1","2","3","4","5","6","7","8","9"}

\* ajv's `pattern`: new RegExp('[a-zA-Z0-9]+').test(s), a search anywhere in s
MatchesNamePattern(s) == \E i \in DOMAIN s : s[i] \in Letters \cup Digits

\* ajv.validate(ONE_SCHEMA_META_SCHEMA, spec)
ONE_SCHEMA_META_SCHEMA(s) ==
    \* additionalProperties: false beside properties Resources, Endpoints
    /\ s.extraKeys = {}
    \* required: ['Endpoints']
    /\ s.Endpoints.st = "some"
    /\ \A i \in DOMAIN s.Endpoints.v :
          LET e == s.Endpoints.v[i][2]
          IN \* additionalProperties: false beside Name, Request, Response
             /\ e.Description.st = "absent"
             \* required: ['Name', 'Response']
             /\ e.Name.st = "some"
             /\ e.Response.st = "some"
             /\ MatchesNamePattern(e.Name.v)

\* `name in obj` for a plain object with the given own keys
In(name, ownKeys) == name \in Range(ownKeys) \/ name \in ObjectPrototypeKeys

\* params.find((param) => param in obj): the index of the first match, or 0
FindIndex(params, ownKeys) ==
    IF \E i \in DOMAIN params : In(params[i], ownKeys)
    THEN CHOOSE i \in DOMAIN params :
             /\ In(params[i], ownKeys)
             /\ \A j \in 1..(i - 1) : ~In(params[j], ownKeys)
    ELSE 0

\* a bug that drops the `resolved.type &&` guard
typeIsNotObject(resolved) == resolved.type # "object"

\* resolved.type && resolved.type !== 'object'
nonObjectType(resolved) == resolved.type # "absent" /\ resolved.type # "object"

\* the body of validateSchema's loop for one endpoint: the error it throws,
\* or NoError
checkEndpoint(name, endpoint, Resources) ==
    LET own(resolved) == IF resolved.properties.st = "some"
                         THEN Keys(resolved.properties.v) ELSE <<>>
        \* getPathParams(name).find((param) => param in (properties ?? {}))
        collision(params, k) ==
            \* if (collidingParam): the empty string is falsy
            IF k # 0 /\ params[k] # <<>>
            THEN [NoError EXCEPT !.kind = "ParameterCollision",
                                 !.endpoint = name, !.param = params[k]]
            ELSE NoError
        find(params, props) ==
            collision(params, FindIndex(params, props))
        check(r) ==
            IF r.err # NoError THEN r.err
            ELSE IF nonObjectType(r.v)
            THEN [NoError EXCEPT !.kind = "NonObjectRequest", !.endpoint = name]
            ELSE IF ~HasPath(name) THEN Threw("TypeError")
            ELSE find(getPathParams(name), own(r.v))
    IN IF endpoint.Request.st # "some" THEN NoError
       ELSE check(withResolvedDefinitions(
                      endpoint.Request.v[1],
                      IF Resources.st = "some" THEN Resources.v ELSE <<>>))

\* the error validateSchema throws, or NoError when it returns
validateSchema(s) ==
    IF ~ONE_SCHEMA_META_SCHEMA(s) THEN Threw("InvalidSchema")
    ELSE FirstError([i \in DOMAIN s.Endpoints.v |->
             [err |-> checkEndpoint(s.Endpoints.v[i][1], s.Endpoints.v[i][2],
                                    s.Resources)]])

----------------------------------------------------------------------------
(* meta-schema.ts: assumptions *)

\* a round that leaves an endpoint without a Request without one
applyToDeclared(c, transform) ==
    LET t(schema) == transformJSONSchema(schema, transform, <<>>, 0).v
    IN [c EXCEPT
          !.Resources =
              IF @.st = "some"
              THEN Some([i \in DOMAIN @.v |-> <<@.v[i][1], t(@.v[i][2])>>])
              ELSE @,
          !.Endpoints =
              Some([i \in DOMAIN @.v |->
                  <<@.v[i][1],
                    [@.v[i][2] EXCEPT
                       !.Request = IF @.st = "some" THEN Some(<<t(@.v[1])>>)
                                   ELSE @,
                       !.Response = Some(<<t(@.v[1])>>)]>>])]

\* one round of transformOneSchema's outer loop: every resource, and every
\* endpoint's Request ?? {} and Response, replaced in `c` by its transform
applyToContract(c, transform) ==
    LET t(schema) == transformJSONSchema(schema, transform, <<>>, 0).v
    IN [c EXCEPT
          !.Resources =
              IF @.st = "some"
              THEN Some([i \in DOMAIN @.v |-> <<@.v[i][1], t(@.v[i][2])>>])
              ELSE @,
          !.Endpoints =
              Some([i \in DOMAIN @.v |->
                  <<@.v[i][1],
                    [@.v[i][2] EXCEPT
                       !.Request = Some(<<t(IF @.st = "some" THEN @.v[1]
                                            ELSE EmptySchema)>>),
                       !.Response = Some(<<t(@.v[1])>>)]>>])]

RECURSIVE applyAll(_, _)
applyAll(c, transforms) ==
    IF transforms = <<>> THEN c
    ELSE applyAll(applyToContract(c, Head(transforms)), Tail(transforms))

transformOneSchema(s, transforms) == applyAll(deepCopy(s), transforms)

DEFAULT_ASSUMPTIONS ==
    [noAdditionalPropertiesOnObjects |-> TRUE,
     objectPropertiesRequiredByDefault |-> TRUE]

SchemaAssumptions ==
    [noAdditionalPropertiesOnObjects : BOOLEAN,
     objectPropertiesRequiredByDefault : BOOLEAN]

\* a bug in the order of the spread: { ...overrides, ...DEFAULT_ASSUMPTIONS }
withDefaultAssumptions(s, overrides) ==
    transformOneSchema(
        transformOneSchema(deepCopy(s), <<"noAdditionalPropertiesOnObjects">>),
        <<"objectPropertiesRequiredByDefault", "pruneOptional">>)

withAssumptions(s, overrides) ==
    LET required(c) ==
            IF overrides.objectPropertiesRequiredByDefault
            THEN transformOneSchema(
                     c, <<"objectPropertiesRequiredByDefault", "pruneOptional">>)
            ELSE c
        closed(c) ==
            IF overrides.noAdditionalPropertiesOnObjects
            THEN transformOneSchema(c, <<"noAdditionalPropertiesOnObjects">>)
            ELSE c
    IN required(closed(deepCopy(s)))

\* js-yaml's load of the file's text: the stored document as a new object.
\* A document is a contract or an introspection response
\* [schema |-> contract, serviceVersion |-> ...]
load(f) ==
    IF "schema" \in DOMAIN f THEN [f EXCEPT !.schema = deepCopy(@)]
    ELSE deepCopy(f)

\* [err, v]: the error thrown, or the contract returned
loadSchemaFromFile(f, assumptions) ==
    LET validated(s, e) ==
            IF e # NoError THEN [err |-> e, v |-> s]
            ELSE [err |-> NoError, v |-> withAssumptions(s, assumptions)]
        loaded(s) == validated(s, validateSchema(s))
        \* if (typeof spec === 'object' && 'schema' in spec) spec = spec.schema
        unwrap(d) == loaded(IF "schema" \in DOMAIN d THEN d.schema ELSE d)
    IN unwrap(load(f))

----------------------------------------------------------------------------
(* koa.ts, koa-utils.ts: route registration *)

SupportedMethods ==
    {<<"P","O","S","T">>, <<"G","E","T">>, <<"P","U","T">>, <<"P","A","T","C","H">>, <<"D","E","L","E","T","E">>}

\* a bug that lets the switch fall through: an unknown method registers
\* nothing and throws nothing
implementRouteSilent(route, table) ==
    LET method == split(route, " ")[1]
        path == IF Len(split(route, " ")) >= 2 THEN split(route, " ")[2] ELSE <<>>
    IN [err |-> NoError,
        routes |-> IF method \in SupportedMethods
                   THEN Append(table, <<method, path>>) ELSE table]

\* the switch (method) that ends implementRoute: the route table and the
\* error thrown after registering `route` on a router holding `table`
implementRoute(route, table) ==
    LET parts == split(route, " ")
        method == parts[1]
        path == IF Len(parts) >= 2 THEN parts[2] ELSE <<>>
    IN IF method \in SupportedMethods
       THEN [err |-> NoError, routes |-> Append(table, <<method, path>>)]
       ELSE [err |-> [NoError EXCEPT !.kind = "UnsupportedMethod",
                                     !.endpoint = route],
             routes |-> table]

RECURSIVE implementSchema(_, _)
\* implementSchema's loop over the endpoints, in key order; it stops at the
\* first throw
implementSchema(endpoints, table) ==
    IF endpoints = <<>> THEN [err |-> NoError, routes |-> table]
    ELSE LET r == implementRoute(Head(endpoints)[1], table)
         IN IF r.err # NoError THEN r
            ELSE implementSchema(Tail(endpoints), r.routes)

----------------------------------------------------------------------------
(* koa-utils.ts, router.ts: the handler of a route *)

\* A request or response value is Some(object), the object an ordered map
\* from a key to [t, v], t the JavaScript type of v.  A z.object schema is
\* an ordered map from a key to the type it requires.

\* schema.safeParse(data) of a z.object: every key of the shape is
\* required with its type; keys outside the shape are stripped from .data
safeParse(shape, data) ==
    LET success == \A i \in DOMAIN shape :
                      /\ HasKey(data.v, shape[i][1])
                      /\ Lookup(data.v, shape[i][1]).t = shape[i][2]
    IN [success |-> success,
        data |-> IF success
                 THEN Some([i \in DOMAIN shape |->
                               <<shape[i][1], Lookup(data.v, shape[i][1])>>])
                 ELSE Undefined]

\* ctx.throw(status)
Throws(status) == [threw |-> status, v |-> Undefined]
Returns(v) == [threw |-> 0, v |-> v]

\* A run of a handler is [via, route, endpoint, data, parse, returns, sets]:
\* who registered the route, the endpoint's request and response shapes,
\* the query or body of the request, what the caller's parse does, and the
\* value the caller's implementation returns and the status it sets (0 when
\* it sets none).

\* the parse argument implementRoute is given: OneSchemaRouter.implement
\* passes the endpoint's safeParse, implementSchema the caller's parse
parseOf(run, data) ==
    IF run.via = "OneSchemaRouter.implement"
    THEN LET res == safeParse(run.endpoint.request, data)
         IN IF ~res.success THEN Throws(400) ELSE Returns(res.data)
    ELSE CASE run.parse = "throw" -> Throws(400)
           [] run.parse = "defaults" ->
                 Returns(Some(data.v \o << <<<<"p","a","g","e","S","i","z","e">>, [t |-> "number", v |-> "10"]>> >>))
           [] OTHER -> Returns(data)

\* an implementation argument that hands the value through unchecked
uncheckedImplementationOf(run) == Returns(run.returns)

\* the implementation argument implementRoute is given: the caller's by
\* implementSchema; OneSchemaRouter.implement wraps the caller's in a
\* safeParse of the value it returns
implementationOf(run) ==
    IF run.via = "OneSchemaRouter.implement"
    THEN LET res == safeParse(run.endpoint.response, run.returns)
         IN IF ~res.success THEN Throws(500) ELSE Returns(res.data)
    ELSE Returns(run.returns)

useQuery(route) ==
    split(route, " ")[1] \in {<<"G","E","T">>, <<"D","E","L","E","T","E">>}

\* the context Koa hands the handler, its status the 404 of a response on
\* which nothing has set one: invoked, seen, parsed and response
\* record the call of the implementation, the query or body it found on
\* ctx.request, what parse returned and the handler's local `response`
contextOf(run) ==
    [request |-> [query |-> IF useQuery(run.route) THEN run.data ELSE Some(<<>>),
                  body |-> IF useQuery(run.route) THEN Undefined ELSE run.data],
     body |-> Undefined,
     status |-> 404,
     threw |-> 0,
     parsed |-> Undefined,
     invoked |-> FALSE,
     seen |-> Undefined,
     response |-> Undefined]

\* a handler that hands the raw query or body on without parsing it
handlerWithoutParse(run, ctx) == ctx

\* step 1 of the handler: the query is emptied and refilled with a copy of
\* what parse returns, the body is replaced by it
handlerParse(run, ctx) ==
    LET p == parseOf(run, IF useQuery(run.route) THEN ctx.request.query
                          ELSE ctx.request.body)
    IN IF p.threw # 0 THEN [ctx EXCEPT !.threw = p.threw]
       ELSE IF useQuery(run.route)
       THEN [ctx EXCEPT !.request.query = Some(p.v.v), !.parsed = p.v]
       ELSE [ctx EXCEPT !.request.body = p.v, !.parsed = p.v]

\* step 2 of the handler: await implementation(ctx)
handlerImplementation(run, ctx) ==
    LET r == implementationOf(run)
    IN [ctx EXCEPT !.invoked = TRUE,
                   !.seen = IF useQuery(run.route) THEN ctx.request.query
                            ELSE ctx.request.body,
                   !.status = IF run.sets # 0 THEN run.sets ELSE @,
                   !.threw = r.threw,
                   !.response = r.v]

\* a step 3 that sets 200 whatever the status is
handlerRespondWith200(ctx) == [ctx EXCEPT !.body = ctx.response, !.status = 200]

\* step 3 of the handler: the body, and 200 unless the status is 2xx
handlerRespond(ctx) ==
    [ctx EXCEPT !.body = ctx.response,
                !.status = IF ctx.status < 200 \/ ctx.status >= 300
                           THEN 200 ELSE @]

----------------------------------------------------------------------------
(* router.ts: OneSchemaRouter.declare *)

\* The schema of a OneSchemaRouter is an ordered map from a route to the
\* endpoint [name, route] declared for it.

\* OneSchemaRouter.create(config): the router's schema is {}
create == <<>>

\* a declare without the check of the name
declareUnchecked(schema, endpoint) ==
    [err |-> NoError,
     schema |-> ObjectOf(Append(schema, <<endpoint.route, endpoint>>))]

\* declare(endpoint): the error thrown and this.schema afterwards
declare(schema, endpoint) ==
    LET currentNames == {schema[i][2].name : i \in DOMAIN schema}
    IN IF endpoint.name \in currentNames
       THEN [err |-> Threw("MultipleEndpointsSameName"), schema |-> schema]
       ELSE [err |-> NoError,
             schema |-> ObjectOf(Append(schema, <<endpoint.route, endpoint>>))]

----------------------------------------------------------------------------
(* generate-endpoints.ts: the composite schema handed to the compiler *)

\* masterSchema of generateEndpointTypes({ Resources, Endpoints })
masterSchema(Resources, Endpoints) ==
    LET string == [EmptySchema EXCEPT !.type = "string"]
        PathParams(names) ==
            [type |-> "object", additionalProperties |-> "false",
             required |-> names,
             properties |-> ObjectOf([i \in DOMAIN names |-> <<names[i], string>>])]
        entry(key, e) ==
            [description |-> e.Description, type |-> "object",
             additionalProperties |-> "false",
             required |-> <<"Request", "PathParams", "Response">>,
             properties |->
                 [Request |-> IF e.Request.st = "some" THEN e.Request.v[1]
                              ELSE EmptySchema,
                  PathParams |-> PathParams(getPathParams(key)),
                  Response |-> e.Response]]
    IN [definitions |-> Resources, title |-> "Endpoints", type |-> "object",
        additionalProperties |-> "false",
        properties |-> ObjectOf([i \in DOMAIN Endpoints |->
                          <<Endpoints[i][1], entry(Endpoints[i][1], Endpoints[i][2])>>]),
        required |-> Keys(Endpoints)]

----------------------------------------------------------------------------
(* openapi.ts: toOpenAPISpec *)

\* An OpenAPI document is [components, paths]: paths is an ordered map from
\* a path to an ordered map from a method to an operation
\* [operationId, description, responses, parameters, requestBody]; a
\* response and a request body are [content], an optional map from a media
\* type to [schema], schema being optional.
Content(schema) ==
    [content |-> Some(<<<<"application/json", [schema |-> schema]>>>>)]

\* body.content?.['application/json']?.schema
JsonSchemaOf(body) ==
    IF body.content.st = "some" /\ HasKey(body.content.v, "application/json")
    THEN Lookup(body.content.v, "application/json").schema
    ELSE Absent

\* koaPath.split('/')
\*   .map((part) => (part.startsWith(':') ? `{${part.slice(1)}}` : part))
\*   .join('/')
toOpenAPIPathParts(koaPath) ==
    LET parts == split(koaPath, "/")
    IN join([i \in DOMAIN parts |->
                IF startsWith(parts[i], ":")
                THEN <<"{">> \o Tail(parts[i]) \o <<"}">> ELSE parts[i]], "/")

\* koaPath.split('/').filter((part) => part.startsWith(':'))
\*   .map((part) => part.slice(1))
getPathParameters(koaPath) ==
    LET parts == SelectSeq(split(koaPath, "/"), LAMBDA part : startsWith(part, ":"))
    IN [i \in DOMAIN parts |-> Tail(parts[i])]

\* schema.description is not a key of the schema nodes of the model: the
\* description of a query parameter written by toOpenAPISpec is undefined
toQueryParam(item, name, schema) ==
    [in |-> "query", name |-> name, description |-> Undefined,
     schema |-> Some(<<schema>>),
     required |-> item.required.st = "some" /\ name \in Range(item.required.v)]

RECURSIVE toComponents(_)
\* JSON.parse(JSON.stringify(x).replace(/#\/definitions/g,
\* '#/components/schemas')) on a value already copied by deepCopy: the
\* strings of the model that can hold the pattern are the $refs
toComponents(x) ==
    LET list(l) == [i \in DOMAIN l |-> toComponents(l[i])]
        map(m) == [i \in DOMAIN m |-> <<m[i][1], toComponents(m[i][2])>>]
        Definitions == <<"#","/","d","e","f","i","n","i","t","i","o","n","s">>
        ComponentsSchemas ==
            <<"#","/","c","o","m","p","o","n","e","n","t","s",
              "/","s","c","h","e","m","a","s">>
    IN IF IsContract(x) THEN
           [x EXCEPT !.Resources.v = map(@), !.Endpoints.v = map(@)]
       ELSE IF IsEndpoint(x) THEN
           [x EXCEPT !.Request.v = list(@), !.Response.v = list(@)]
       ELSE
           [x EXCEPT !.ref.v = replaceAll(@, Definitions, ComponentsSchemas),
                     !.properties.v = map(@), !.items.v = list(@),
                     !.anyOf.v = list(@), !.oneOf.v = list(@),
                     !.allOf.v = list(@)]

\* the operation toOpenAPISpec writes for one entry of Endpoints
toOperation(endpoint, e) ==
    LET method == split(endpoint, " ")[1]
        path == split(endpoint, " ")[2]
        string == [EmptySchema EXCEPT !.type = "string"]
        pathParams(names) ==
            [i \in DOMAIN names |->
                [in |-> "path", name |-> names[i], description |-> Absent,
                 schema |-> Some(<<string>>), required |-> TRUE]]
        \* Object.entries(item.properties ?? {})
        query(item) ==
            [i \in DOMAIN item.properties.v |->
                toQueryParam(item, item.properties.v[i][1], item.properties.v[i][2])]
        queryParams(Request) ==
            query(Request)
            \o Concat([i \in DOMAIN Request.allOf.v |-> query(Request.allOf.v[i])])
        operation(parameters, requestBody) ==
            [operationId |-> e.Name, description |-> e.Description,
             responses |-> <<<<"200", Content(e.Response)>>>>,
             parameters |-> IF parameters # <<>> THEN Some(parameters) ELSE Absent,
             requestBody |-> requestBody]
    IN IF e.Request.st # "some"
       THEN operation(pathParams(getPathParameters(path)), Absent)
       ELSE IF method \in {<<"G","E","T">>, <<"D","E","L","E","T","E">>}
       THEN operation(pathParams(getPathParameters(path))
                        \o queryParams(e.Request.v[1]), Absent)
       ELSE operation(pathParams(getPathParameters(path)),
                      Some(Content(e.Request)))

\* paths[openAPIPath] = { ...paths[openAPIPath], [method.toLowerCase()]:
\* operation } for every entry of Endpoints in turn
toPaths(Endpoints) ==
    LET openAPIPath(i) == toOpenAPIPathParts(split(Endpoints[i][1], " ")[2])
        method(i) == toLowerCase(split(Endpoints[i][1], " ")[1])
        under(p) == SelectSeq([i \in DOMAIN Endpoints |-> i],
                              LAMBDA i : openAPIPath(i) = p)
        methods(is) ==
            ObjectOf([n \in DOMAIN is |->
                        <<method(is[n]),
                          toOperation(Endpoints[is[n]][1], Endpoints[is[n]][2])>>])
    IN ObjectOf([i \in DOMAIN Endpoints |->
                    <<openAPIPath(i), methods(under(openAPIPath(i)))>>])

\* deepCopy(openAPIDocument): the keys holding undefined are gone
withoutUndefined(paths) ==
    LET param(q) == [q EXCEPT !.description = Jsonify(@)]
        operation(o) ==
            [o EXCEPT !.description = Jsonify(@),
                      !.parameters.v = [i \in DOMAIN @ |-> param(@[i])]]
        methods(ms) == [i \in DOMAIN ms |-> <<ms[i][1], operation(ms[i][2])>>]
    IN [i \in DOMAIN paths |-> <<paths[i][1], methods(paths[i][2])>>]

\* [err, v]: the error validateSchema threw, or the document returned
toOpenAPISpec(schema) ==
    LET document(c) ==
            [components |-> c.Resources,
             paths |-> withoutUndefined(toPaths(c.Endpoints.v))]
        built(e, copied) ==
            IF e # NoError THEN [err |-> e, v |-> [none |-> TRUE]]
            ELSE [err |-> NoError, v |-> document(toComponents(copied))]
    IN built(validateSchema(schema), deepCopy(schema))

----------------------------------------------------------------------------
(* openapi.ts: fromOpenAPISpec *)

SUPPORTED_METHODS ==
    <<<<"g","e","t">>, <<"p","o","s","t">>, <<"p","u","t">>,
      <<"p","a","t","c","h">>, <<"d","e","l","e","t","e">>>>

\* path.split('/').map((part) => part.startsWith('{') && part.endsWith('}')
\*   ? `:${part.slice(1, -1)}` : part).join('/')
translateOpenAPIPath(path) ==
    LET parts == split(path, "/")
    IN join([i \in DOMAIN parts |->
                IF startsWith(parts[i], "{") /\ parts[i][Len(parts[i])] = "}"
                THEN <<":">> \o SubSeq(parts[i], 2, Len(parts[i]) - 1)
                ELSE parts[i]], "/")

\* an error of toEndpointDefinition: the message and the operationId in it
OperationError(message, operation) ==
    [NoError EXCEPT !.kind = message, !.endpoint = operation.operationId.v]

\* a bug that makes a property of every parameter, whatever its place
queryRequestOfAll(parameters) ==
    LET required == SelectSeq(parameters, LAMBDA param : param.required)
        property(param) ==
            IF param.schema.st = "some" THEN param.schema.v[1]
            ELSE [EmptySchema EXCEPT !.type = "string"]
                     @@ [description |-> param.description]
    IN [EmptySchema EXCEPT
           !.type = "object", !.additionalProperties = "false",
           !.properties = Some(ObjectOf([i \in DOMAIN parameters |->
                             <<parameters[i].name, property(parameters[i])>>])),
           !.required = Some([i \in DOMAIN required |-> required[i].name])]

\* the Request built for a get or a delete from operation.parameters ?? []
queryRequest(parameters) ==
    LET queryParams == SelectSeq(parameters, LAMBDA param : param["in"] = "query")
        required == SelectSeq(queryParams, LAMBDA param : param.required)
        \* param.schema ?? { type: 'string', description: param.description }
        property(param) ==
            IF param.schema.st = "some" THEN param.schema.v[1]
            ELSE [EmptySchema EXCEPT !.type = "string"]
                     @@ [description |-> IF param.description.st = "some"
                                         THEN param.description ELSE Undefined]
    IN [EmptySchema EXCEPT
           !.type = "object", !.additionalProperties = "false",
           !.properties = Some(ObjectOf([i \in DOMAIN queryParams |->
                             <<queryParams[i].name, property(queryParams[i])>>])),
           !.required = Some([i \in DOMAIN required |-> required[i].name])]

\* a bug that takes the last success response present instead of the first
lastSuccessResponse(responses) ==
    LET present == SelectSeq(<<"202", "201", "200">>,
                             LAMBDA status : HasKey(responses, status))
    IN IF present = <<>> THEN Absent ELSE Some(Lookup(responses, present[1]))

\* [200, 201, 202].map((status) => operation.responses[status]).find(Boolean)
successResponse(responses) ==
    LET present == SelectSeq(<<"200", "201", "202">>,
                             LAMBDA status : HasKey(responses, status))
    IN IF present = <<>> THEN Absent ELSE Some(Lookup(responses, present[1]))

\* [err, v]: the error thrown, or the endpoint
toEndpointDefinition(method, operation) ==
    LET endpoint(Request, Response) ==
            [err |-> NoError,
             v |-> [Name |-> operation.operationId,
                    Description |-> IF operation.description.st = "some"
                                    THEN operation.description ELSE Undefined,
                    Request |-> Request, Response |-> Response]]
        fail(message) ==
            [err |-> OperationError(message, operation),
             v |-> [Name |-> Absent, Description |-> Absent,
                    Request |-> Absent, Response |-> Absent]]
        request(Response) ==
            IF method \in {<<"g","e","t">>, <<"d","e","l","e","t","e">>}
            THEN endpoint(Some(<<queryRequest(operation.parameters.v)>>), Response)
            ELSE IF operation.requestBody.st # "some"
            THEN fail("No request body defined for operation")
            ELSE IF operation.requestBody.v.content.st # "some"
            THEN fail("No request body content defined for operation")
            ELSE IF JsonSchemaOf(operation.requestBody.v).st # "some"
            THEN fail("No JSON request body defined for operation")
            ELSE endpoint(JsonSchemaOf(operation.requestBody.v), Response)
        response(success) ==
            IF success.st # "some"
            THEN fail("No success response found for operation")
            ELSE IF JsonSchemaOf(success.v).st # "some"
            THEN fail("No JSON response found for operation")
            ELSE request(JsonSchemaOf(success.v))
    IN IF operation.operationId.st # "some" \/ operation.operationId.v = <<>>
       THEN [fail("No operationId on path.") EXCEPT !.err.endpoint = <<>>]
       ELSE response(successResponse(operation.responses))

\* [err, v]: the error thrown or NoError, and the local `schema` as it is
\* when the function throws or returns (it is returned when err is NoError)
fromOpenAPISpec(document) ==
    LET operations(path, pathDef) ==
            LET methods == SelectSeq(SUPPORTED_METHODS,
                                     LAMBDA method : HasKey(pathDef, method))
            IN [n \in DOMAIN methods |->
                   [key |-> toUpperCase(methods[n]) \o <<" ">>
                               \o translateOpenAPIPath(path),
                    r |-> toEndpointDefinition(methods[n],
                                               Lookup(pathDef, methods[n]))]]
        built(all) ==
            LET done == SelectSeq([i \in DOMAIN all |-> i],
                           LAMBDA i : \A j \in 1..i : all[j].r.err = NoError)
            IN [fresh |-> TRUE, Resources |-> Some(<<>>), extraKeys |-> {},
                Endpoints |-> Some(ObjectOf([n \in DOMAIN done |->
                                  <<all[done[n]].key, all[done[n]].r.v>>]))]
        finish(e, schema) ==
            [err |-> IF e # NoError THEN e ELSE validateSchema(schema),
             v |-> schema]
        loop(all) ==
            finish(FirstError([i \in DOMAIN all |-> all[i].r]), built(all))
    IN loop(Concat([i \in DOMAIN document.paths |->
                      operations(document.paths[i][1], document.paths[i][2])]))

----------------------------------------------------------------------------
(* generate-axios-client.ts: the code of the generated client *)

\* The data of a call is an ordered map from a key to [st, v]: st is
\* "undefined" for a key given the value undefined, v is a string.

\* encodeURIComponent(value): the unreserved characters stay, the others
\* are percent-encoded (the table has those the inputs of the model use);
\* undefined is first converted to the string 'undefined'
encodeURIComponent(value) ==
    LET escapes == <<<<",", <<"%","2","C">>>>, <<"/", <<"%","2","F">>>>,
                     <<":", <<"%","3","A">>>>, <<" ", <<"%","2","0">>>>>>
        encoded(c) == IF HasKey(escapes, c) THEN Lookup(escapes, c) ELSE <<c>>
    IN IF value.st = "undefined"
       THEN <<"u","n","d","e","f","i","n","e","d">>
       ELSE Concat([i \in DOMAIN value.v |-> encoded(value.v[i])])

RECURSIVE substituteParams(_, _)
\* Object.entries(params).reduce((url, [name, value]) =>
\*   url.replace(":" + name, encodeURIComponent(value)), url)
substituteParams(url, params) ==
    IF params = <<>> THEN url
    ELSE substituteParams(
             replace(url, <<":">> \o params[1][1], encodeURIComponent(params[1][2])),
             Tail(params))

\* a bug that forwards the path parameters too
removeNothing(url, params) ==
    SelectSeq(params, LAMBDA entry : entry[2].st # "undefined")

\* Object.entries(params).filter(([key, value]) => value !== undefined)
\*   .reduce((accum, [name, value]) =>
\*     url.includes(':' + name) ? accum : { ...accum, [name]: value }, {})
removePathParams(url, params) ==
    SelectSeq(params, LAMBDA entry :
        entry[2].st # "undefined" /\ ~includes(url, <<":">> \o entry[1]))

\* the argument of this.client.request in the method generated for an
\* endpoint: config is empty
clientRequest(endpoint, data) ==
    LET method == split(endpoint, " ")[1]
        url == split(endpoint, " ")[2]
        useQueryParams == method \in {<<"G","E","T">>, <<"D","E","L","E","T","E">>}
    IN [method |-> method,
        params |-> IF useQueryParams THEN Some(removePathParams(url, data))
                   ELSE Absent,
        data |-> IF useQueryParams THEN Absent
                 ELSE Some(removePathParams(url, data)),
        url |-> substituteParams(url, data)]

sNextPageToken == <<"n","e","x","t","P","a","g","e","T","o","k","e","n">>
sPageSize == <<"p","a","g","e","S","i","z","e">>

\* new URLSearchParams(query).get(name): the value of the first pair of
\* that name, null when there is none
searchParamsGet(query, name) ==
    LET pairs == SelectSeq(split(query, "&"), LAMBDA p : p # <<>>)
        named == SelectSeq(pairs, LAMBDA p : split(p, "=")[1] = name)
    IN IF named = <<>> THEN Null
       ELSE Some(join(Tail(split(named[1], "=")), "="))

\* link.split('?')[1] is undefined for a link without '?', and the
\* parameters of undefined are none
parseQueryParamsFromPagingLink(link) ==
    LET parts == split(link, "?")
        query == IF Len(parts) >= 2 THEN parts[2] ELSE <<>>
    IN << <<sNextPageToken, searchParamsGet(query, sNextPageToken)>>,
          <<sPageSize, searchParamsGet(query, sPageSize)>> >>

\* A response is [items, next]: next is links.next, a string when present.
\* nextPageParams after a response
nextPageParams(response) ==
    IF response.next.st = "some" /\ response.next.v # <<>>
    THEN parseQueryParamsFromPagingLink(response.next.v)
    ELSE <<>>

\* !!nextPageParams.nextPageToken
hasNextPageToken(params) ==
    /\ HasKey(params, sNextPageToken)
    /\ Lookup(params, sNextPageToken).st = "some"
    /\ Lookup(params, sNextPageToken).v # <<>>

\* { ...nextPageParams, ...data }
pageRequest(params, data) == ObjectOf(params \o data)

\* paginate before its first call
paginateStart ==
    [calls |-> <<>>, result |-> <<>>, nextPageParams |-> <<>>, outstanding |-> 0]

\* the call of one iteration, up to its await
paginateCall(state, data) ==
    [state EXCEPT !.calls = Append(@, pageRequest(state.nextPageParams, data)),
                  !.outstanding = @ + 1]

\* the rest of the iteration, once the response has arrived
paginateResume(state, response) ==
    [state EXCEPT !.result = @ \o response.items,
                  !.nextPageParams = nextPageParams(response),
                  !.outstanding = @ - 1]

----------------------------------------------------------------------------
(* The contracts the model is run on *)

MaxDepth == 2

sId == <<"i","d">>
sMessage == <<"m","e","s","s","a","g","e">>
sPost == <<"P","o","s","t">>
sItem == <<"I","t","e","m">>

Schema == [EmptySchema EXCEPT !.fresh = FALSE]
Str == [Schema EXCEPT !.type = "string"]
Obj == [Schema EXCEPT !.type = "object"]
Arr == [Schema EXCEPT !.type = "array"]
Ref(r) == [Schema EXCEPT !.ref = Some(r)]
Props(n, ps) == [n EXCEPT !.properties = Some(ps)]
Optional(n, o) == [n EXCEPT !.optional = o]

RefPost == Ref(<<"#","/","d","e","f","i","n","i","t","i","o","n","s","/","P","o","s","t">>)

Leaves ==
    {Str, Optional(Str, "true"), Obj, Props(Obj, <<>>), Schema, RefPost}

\* a schema that holds schema c under one keyword, for each of the five
\* keywords the transformer descends into
Nest(c) ==
    { Props(Obj, <<<<sId, Optional(c, "true")>>, <<sMessage, Optional(Str, "1")>>>>),
      [Arr EXCEPT !.items = [st |-> "some", tuple |-> FALSE, v |-> <<c>>]],
      [Schema EXCEPT !.anyOf = Some(<<c, Str>>)],
      [Schema EXCEPT !.oneOf = Some(<<Obj, c>>)],
      [Obj EXCEPT !.allOf = Some(<<c>>)] }

\* the same, and the variants of what a node beside its children declares:
\* its own additionalProperties, its own required list, no type, a tuple
\* of items, a child without a marker
Wrap(c) ==
    Nest(c) \cup
    { Props(Obj, <<<<sId, c>>>>),
      [Props(Obj, <<<<sMessage, Optional(Str, "false")>>, <<sId, Optional(c, "true")>>>>)
          EXCEPT !.additionalProperties = "true"],
      [Props(Obj, <<<<sId, Optional(c, "true")>>>>)
          EXCEPT !.required = Some(<<sMessage>>)],
      Props(Schema, <<<<sId, Optional(c, "true")>>>>),
      [Arr EXCEPT !.items = [st |-> "some", tuple |-> TRUE, v |-> <<Str, c>>]] }

RECURSIVE Schemas(_)
\* the schemas nested at most d levels deep: every variant at the innermost
\* level, one schema per keyword around it
Schemas(d) ==
    IF d = 0 THEN Leaves
    ELSE IF d = 1 THEN Leaves \cup UNION {Wrap(c) : c \in Leaves}
    ELSE Schemas(d - 1) \cup UNION {Nest(c) : c \in Schemas(d - 1)}

Endpoint(name, request, response) ==
    [Name |-> Some(name), Description |-> Absent,
     Request |-> request, Response |-> Some(<<response>>)]

Contract(resources, endpoints) ==
    [fresh |-> FALSE, Resources |-> resources, Endpoints |-> Some(endpoints),
     extraKeys |-> {}]

NoContract ==
    [fresh |-> FALSE, Resources |-> Absent, Endpoints |-> Absent,
     extraKeys |-> {"none"}]

kGetPosts == <<"G","E","T"," ","/","p","o","s","t","s">>
kPostPosts == <<"P","O","S","T"," ","/","p","o","s","t","s">>
kPutPostsId == <<"P","U","T"," ","p","o","s","t","s","/",":","i","d">>
kPatchIdMessage == <<"P","A","T","C","H"," ","/","p","o","s","t","s","/",":","i","d","/",":","m","e","s","s","a","g","e">>
kDeleteMessage == <<"D","E","L","E","T","E"," ","/","p","o","s","t","s","/",":","m","e","s","s","a","g","e">>
kGetConstructor == <<"G","E","T"," ","/","i","t","e","m","s","/",":","c","o","n","s","t","r","u","c","t","o","r">>
kPutEmptyParam == <<"P","U","T"," ","/","p","o","s","t","s","/",":">>
kOptionsPost == <<"O","P","T","I","O","N","S"," ","/","p","o","s","t">>
kGetPostsId == <<"G","E","T"," ","/","p","o","s","t","s","/",":","i","d">>
kPutPostsPostId == <<"P","U","T"," ","/","p","o","s","t","s","/",":","p","o","s","t","I","d">>
kGetPostsBraces == <<"G","E","T"," ","/","p","o","s","t","s","/","{","i","d","}">>

nGetPosts == <<"g","e","t","P","o","s","t","s">>
nSomething == <<"s","o","m","e","t","h","i","n","g">>

\* contracts that carry one schema of every shape, as a resource, as a
\* Request and as a Response
ShapeContracts ==
    UNION {
      { Contract(Some(<<<<sPost, n>>>>),
                 <<<<kGetPosts, Endpoint(nGetPosts, Absent, RefPost)>>>>),
        Contract(Absent,
                 <<<<kPostPosts, Endpoint(nSomething, Some(<<n>>), Str)>>>>),
        Contract(Some(<<>>),
                 <<<<kGetPosts, Endpoint(nGetPosts, Absent, n)>>,
                   <<kPatchIdMessage, Endpoint(nSomething, Some(<<Obj>>), Schema)>>>>) }
      : n \in Schemas(MaxDepth) }

IdMessage == Props(Obj, <<<<sId, Str>>, <<sMessage, Str>>>>)

Requests ==
    { Absent } \cup
    { Some(<<n>>) : n \in
        { Schema, Obj, Arr, IdMessage,
          Props(Schema, <<<<sId, Str>>>>),
          Props(Arr, <<<<sId, Str>>>>),
          Props(Obj, <<<<sMessage, Str>>>>),
          Props(Obj, <<<<<<>>, Str>>>>),
          [Obj EXCEPT !.allOf = Some(<<IdMessage>>)],
          RefPost,
          Ref(<<"#","/","d","e","f","i","n","i","t","i","o","n","s","/","B","o","g","u","s">>),
          Ref(<<"b","o","g","u","s","-","r","e","f">>),
          Ref(<<"x","/","y","/","P","o","s","t">>),
          Ref(<<"#","/","d","e","f","i","n","i","t","i","o","n","s","/","P","o","s","t","/","e","x","t","r","a">>),
          Ref(<<"#","/","d","e","f","i","n","i","t","i","o","n","s","/">>),
          Ref(<<"#","/","d","e","f","i","n","i","t","i","o","n","s","/","c","o","n","s","t","r","u","c","t","o","r">>),
          Props(Obj, <<<<sMessage, RefPost>>>>) } }

ResourceSets ==
    { Absent,
      Some(<<<<sPost, IdMessage>>>>),
      Some(<<<<sPost, Arr>>>>),
      Some(<<<<sPost, RefPost>>>>),
      Some(<<<<sPost, Ref(<<"#","/","d","e","f","i","n","i","t","i","o","n","s","/","I","t","e","m">>)>>, <<sItem, IdMessage>>>>),
      Some(<<<<sPost, Props(Obj, <<<<sMessage, Ref(<<"#","/","d","e","f","i","n","i","t","i","o","n","s","/","I","t","e","m">>)>>>>)>>,
             <<sItem, Props(Obj, <<<<sId, RefPost>>>>)>>>>) }

EndpointKeys ==
    { kGetPosts, kPostPosts, kPutPostsId, kPatchIdMessage, kDeleteMessage,
      kGetConstructor, kPutEmptyParam, kOptionsPost }

\* one endpoint: every key with every Request over every registry
RequestContracts ==
    { Contract(rs, <<<<k, Endpoint(nSomething, rq, Schema)>>>>) :
        rs \in ResourceSets, k \in EndpointKeys, rq \in Requests }

\* two endpoints: what the first one does decides whether the second is seen
PairContracts ==
    UNION {
      { Contract(Some(<<<<sPost, IdMessage>>>>),
                 <<<<k1, Endpoint(nGetPosts, r1, Str)>>,
                   <<k2, Endpoint(nSomething, r2, Str)>>>>) :
          k2 \in {kPutPostsId, kDeleteMessage, kOptionsPost} \ {k1},
          r1 \in {Absent, Some(<<Arr>>), Some(<<Ref(<<"#","/","d","e","f","i","n","i","t","i","o","n","s","/","B","o","g","u","s">>)>>)},
          r2 \in {Absent, Some(<<RefPost>>), Some(<<Arr>>)} }
      : k1 \in {kGetPosts, kOptionsPost} }

EndpointNames ==
    { nGetPosts, <<"v","2">>, <<"g","e","t","-","p","o","s","t","s">>, <<"g","e","t"," ","p","o","s","t","s">>, <<"-","-">>, <<>> }

Base == Contract(Absent, <<<<kGetPosts, Endpoint(nGetPosts, Absent, Schema)>>>>)
WithEndpoint(e) == [Base EXCEPT !.Endpoints = Some(<<<<kGetPosts, e>>>>)]

\* documents that are not of type OneSchemaDefinition, and the keys and
\* names the meta-schema is there to judge
DocumentContracts ==
    { WithEndpoint(Endpoint(n, Absent, Schema)) : n \in EndpointNames }
    \cup { [Base EXCEPT !.extraKeys = ks] : ks \in {{"Meta"}, {"message"}} }
    \cup { [Base EXCEPT !.Endpoints = Absent, !.extraKeys = {"message"}],
           [Base EXCEPT !.Endpoints = Absent],
           [Base EXCEPT !.Endpoints = Some(<<>>)],
           WithEndpoint([Endpoint(nGetPosts, Absent, Schema)
                            EXCEPT !.Description = Some("text")]),
           WithEndpoint([Endpoint(nGetPosts, Absent, Schema)
                            EXCEPT !.Name = Absent]),
           WithEndpoint([Endpoint(nGetPosts, Some(<<Obj>>), Schema)
                            EXCEPT !.Response = Absent]) }

\* two endpoints whose keys differ and whose OpenAPI paths do not
TranslatedContracts ==
    { Contract(Absent, <<<<ks[1], Endpoint(nGetPosts, Absent, Schema)>>,
                         <<ks[2], Endpoint(nSomething, Absent, Str)>>>>) :
        ks \in { <<kGetPostsId, kGetPostsBraces>>,
                 <<kGetPostsBraces, kGetPostsId>> } }

\* the contract of the client's integration test, and one whose Request
\* has a property named like the beginning of the path parameter
ClientContracts ==
    { Contract(Some(<<>>),
               <<<<kGetPosts, Endpoint(nGetPosts, Some(<<Props(Obj, <<<<sMessage, Str>>>>)>>), Obj)>>,
                 <<kPutPostsId, Endpoint(nSomething, Some(<<Props(Obj, <<<<sMessage, Str>>>>)>>), Obj)>>>>),
      Contract(Some(<<>>),
               <<<<kPutPostsPostId,
                   Endpoint(nSomething,
                            Some(<<Props(Obj, <<<<<<"p","o","s","t">>, Str>>>>)>>),
                            Obj)>>>>) }

Contracts ==
    ShapeContracts \cup RequestContracts \cup PairContracts
    \cup DocumentContracts \cup TranslatedContracts \cup ClientContracts

\* OpenAPI documents: one operation of every kind under every method, and
\* documents with two operations or none
Documents ==
    LET json(n) == Content(Some(<<n>>))
        plain == [content |-> Some(<<<<"text/plain", [schema |-> Some(<<Str>>)]>>>>)]
        Responses ==
            { <<>>,
              <<<<"200", json(Str)>>>>,
              <<<<"201", json(Obj)>>, <<"202", json(Str)>>>>,
              <<<<"202", json(Str)>>, <<"200", json(Obj)>>>>,
              <<<<"200", [content |-> Absent]>>, <<"201", json(Str)>>>>,
              <<<<"200", plain>>>>,
              <<<<"404", json(Str)>>>> }
        Bodies ==
            { Absent, Some([content |-> Absent]), Some(plain),
              Some(Content(Absent)), Some(json(IdMessage)) }
        param(in, name, schema, description, required) ==
            [in |-> in, name |-> name, schema |-> schema,
             description |-> description, required |-> required]
        Parameters ==
            { Absent,
              Some(<<param("path", sId, Some(<<Str>>), Absent, TRUE),
                     param("query", sMessage, Some(<<Arr>>), Absent, TRUE),
                     param("header", sItem, Absent, Absent, TRUE),
                     param("query", sPost, Absent, Some("text"), FALSE),
                     param("query", sItem, Absent, Absent, TRUE)>>) }
        Operations(method) ==
            { [operationId |-> id, description |-> d, responses |-> rs,
               parameters |-> ps, requestBody |-> b] :
                id \in {Some(nGetPosts), Some(<<>>), Absent},
                d \in {Absent},
                rs \in Responses,
                ps \in IF method \in {<<"g","e","t">>, <<"d","e","l","e","t","e">>}
                       THEN Parameters ELSE {Absent},
                b \in IF method \in {<<"p","o","s","t">>, <<"p","u","t">>,
                                     <<"p","a","t","c","h">>}
                      THEN Bodies ELSE {Absent} }
        good == [operationId |-> Some(nGetPosts), description |-> Some("text"),
                 responses |-> <<<<"200", json(Str)>>>>,
                 parameters |-> Absent, requestBody |-> Absent]
        path == <<"/","p","o","s","t","s","/","{","i","d","}">>
        document(paths) == [components |-> Absent, paths |-> paths]
    IN { document(<<<<path, <<<<method, o>>>>>>>>) :
           method \in Range(SUPPORTED_METHODS) \cup {<<"o","p","t","i","o","n","s">>},
           o \in UNION { Operations(m) : m \in Range(SUPPORTED_METHODS) } }
       \cup { document(<<>>),
              document(<<<<path, <<<<<<"p","o","s","t">>, good>>,
                                   <<<<"g","e","t">>, good>>>>>>>>),
              document(<<<<path, <<<<<<"d","e","l","e","t","e">>,
                                     [good EXCEPT !.operationId = Absent]>>,
                                   <<<<"g","e","t">>, good>>>>>>,
                         <<<<"/","p","o","s","t","s">>,
                           <<<<<<"g","e","t">>, [good EXCEPT !.responses = <<>>]>>>>>>>>) }

\* the data a method of the generated client is called with: a string or
\* undefined under keys that are, or resemble, path parameters
MaxKeys == 2
CallData ==
    LET names == {sId, sMessage, <<"p","o","s","t">>, <<"p","o","s","t","I","d">>}
        values == { Some(<<"p","1">>), Some(<<"a",",","b">>), Undefined }
    IN UNION { { [i \in 1..n |-> <<ks[i], vs[i]>>] :
                   ks \in { k \in [1..n -> names] :
                              \A i, j \in 1..n : i # j => k[i] # k[j] },
                   vs \in [1..n -> values] } : n \in 0..MaxKeys }

\* Runs of paginate: the data of the call and the script of responses the
\* server gives, of which the last and only the last omits links.next
MaxPages == 3
PagingLinks ==
    { <<"/","p","?","n","e","x","t","P","a","g","e","T","o","k","e","n","=","t","1","&","p","a","g","e","S","i","z","e","=","1","0">>,
      <<"/","p","?","p","a","g","e","S","i","z","e","=","1","0","&","n","e","x","t","P","a","g","e","T","o","k","e","n","=","t","2">>,
      <<"/","p","?","p","a","g","e","S","i","z","e","=","1","0">> }
PageData ==
    { <<>>,
      << <<<<"f","i","l","t","e","r">>, Some(<<"x">>)>> >>,
      << <<sNextPageToken, Some(<<"t","0">>)>> >>,
      << <<sPageSize, Some(<<"5">>)>>, <<<<"f","i","l","t","e","r">>, Some(<<"x">>)>> >> }
Paginations ==
    UNION { { [data |-> data,
               script |-> [i \in 1..n |->
                              [items |-> IF some[i] THEN <<i, 0>> ELSE <<>>,
                               next |-> IF i = n THEN Absent
                                        ELSE Some(links[i])]]] :
                 data \in PageData,
                 some \in [1..n -> BOOLEAN],
                 links \in [1..(n - 1) -> PagingLinks] } : n \in 1..MaxPages }
IsPagination(x) == "script" \in DOMAIN x

\* Runs of a route's handler: the endpoint of router.test.ts, whose request
\* and response are z.object({ message: z.string() })
ItemShape == << <<sMessage, "string">> >>
sBogus == <<"b","o","g","u","s">>
TextOf(v) == [t |-> "string", v |-> v]
NumberOf(v) == [t |-> "number", v |-> v]
RunData ==
    { Some(<<>>),
      Some(<< <<sMessage, TextOf("m")>> >>),
      Some(<< <<sBogus, TextOf("value")>> >>),
      Some(<< <<sMessage, TextOf("m")>>, <<sBogus, TextOf("value")>> >>) }
RunReturns ==
    { Some(<< <<sMessage, TextOf("test-message")>> >>),
      Some(<< <<sMessage, NumberOf("123")>> >>),
      Some(<< <<sMessage, TextOf("test-message")>>,
              <<<<"a","n","o","t","h","e","r","F","i","e","l","d">>, NumberOf("1234")>> >>) }
RunStatuses == {0, 199, 200, 204, 299, 300, 301}
Runs ==
    { run \in [via : {"implementSchema", "OneSchemaRouter.implement"},
               route : {<<"G","E","T"," ","/","i","t","e","m","s">>, <<"P","O","S","T"," ","/","i","t","e","m","s">>},
               endpoint : {[request |-> ItemShape, response |-> ItemShape]},
               data : RunData,
               parse : {"identity", "throw", "defaults"},
               returns : RunReturns,
               sets : RunStatuses] :
        run.via = "OneSchemaRouter.implement" => run.parse = "identity" }
IsRun(x) == "via" \in DOMAIN x

\* The endpoints declared on a OneSchemaRouter, and the number of declare
\* calls made on one router
MaxDeclares == 3
Declarations ==
    [name : {<<"c","r","e","a","t","e","S","o","m","e","t","h","i","n","g">>, <<"g","e","t","I","t","e","m">>},
     route : {<<"P","O","S","T"," ","/","i","t","e","m","s">>, <<"P","U","T"," ","/","i","t","e","m","s">>, <<"G","E","T"," ","/","i","t","e","m","s">>}]
NewRouter == [using |-> "Router", introspection |-> Undefined]
IsRouterConfig(x) == "using" \in DOMAIN x

\* what TypeScript's OneSchemaDefinition guarantees of an argument
IsOneSchemaDefinition(s) ==
    /\ s.Endpoints.st = "some"
    /\ \A i \in DOMAIN s.Endpoints.v :
          LET e == s.Endpoints.v[i][2]
          IN e.Name.st = "some" /\ e.Response.st = "some"

----------------------------------------------------------------------------
(* The system: one operation is run on the contract `spec` *)

NoFile == [none |-> TRUE]
NoInput == [none |-> TRUE]
NoOutput == [none |-> TRUE]

Init ==
    /\ \/ spec \in Contracts /\ input = NoInput
       \/ spec = Base /\ input \in Documents
       \/ spec = Base /\ input \in Paginations
       \/ spec = Base /\ input \in Runs
       \/ spec = Base /\ input = NewRouter
    /\ spec0 = spec
    /\ file = NoFile
    /\ pc = "idle"
    /\ flags = DEFAULT_ASSUMPTIONS
    /\ copy = NoContract
    /\ result = NoContract
    /\ verdict = NoError
    /\ routes = <<>>
    /\ output = NoOutput

\* validateSchema(spec)
ValidateSchema ==
    /\ pc = "idle"
    /\ verdict' = validateSchema(spec)
    /\ pc' = "validateSchema: done"
    /\ UNCHANGED <<spec, spec0, file, flags, copy, result, routes, input, output>>

\* A write through `target` to an object graph that is not fresh is a write
\* to the caller's object: the caller's spec holds the written value too.
WrittenThrough(target, written) == IF target.fresh THEN spec ELSE written

\* withAssumptions(spec, overrides), up to `let copy = deepCopy(spec)`
WithAssumptions(overrides) ==
    /\ pc = "idle"
    /\ IsOneSchemaDefinition(spec)
    /\ flags' = overrides
    /\ copy' = deepCopy(spec)
    /\ pc' = "withAssumptions: copied"
    /\ UNCHANGED <<spec, spec0, file, result, verdict, routes, input, output>>

\* one round of transformOneSchema's loop, on the object `local`
Round(local, transform) ==
    LET written(out) == copy' = out /\ spec' = WrittenThrough(local, out)
    IN written(applyToContract(local, transform))

\* if (assumptions.noAdditionalPropertiesOnObjects) copy = transformOneSchema(..)
NoAdditionalPropertiesPass ==
    /\ pc = "withAssumptions: copied"
    /\ IF flags.noAdditionalPropertiesOnObjects
       THEN Round(deepCopy(copy), "noAdditionalPropertiesOnObjects")
       ELSE UNCHANGED <<copy, spec>>
    /\ pc' = "withAssumptions: closed"
    /\ UNCHANGED <<spec0, file, flags, result, verdict, routes, input, output>>

\* transformOneSchema(copy, required, prune): the copy and the first round
\* of its loop; `copy` holds transformOneSchema's local from here on
RequiredPass ==
    /\ pc = "withAssumptions: closed"
    /\ flags.objectPropertiesRequiredByDefault
    /\ Round(deepCopy(copy), "objectPropertiesRequiredByDefault")
    /\ pc' = "withAssumptions: required"
    /\ UNCHANGED <<spec0, file, flags, result, verdict, routes, input, output>>

\* the second round of that loop
PrunePass ==
    /\ pc = "withAssumptions: required"
    /\ Round(copy, "pruneOptional")
    /\ pc' = "withAssumptions: pruned"
    /\ UNCHANGED <<spec0, file, flags, result, verdict, routes, input, output>>

\* return copy
Return ==
    /\ \/ pc = "withAssumptions: pruned"
       \/ pc = "withAssumptions: closed"
            /\ ~flags.objectPropertiesRequiredByDefault
    /\ result' = copy
    /\ pc' = "withAssumptions: done"
    /\ UNCHANGED <<spec, spec0, file, flags, copy, verdict, routes, input, output>>

\* writeFileSync(filename, dump(document)): the contract itself, or an
\* introspection response that holds it
WriteFile(introspection) ==
    /\ pc = "idle"
    /\ file' = IF introspection
               THEN [schema |-> spec, serviceVersion |-> "mock-service-version"]
               ELSE spec
    /\ pc' = "written"
    /\ UNCHANGED <<spec, spec0, flags, copy, result, verdict, routes, input, output>>

\* the schemas a contract holds at its top: resources, Requests, Responses
RootSchemas(c) ==
    Range(Values(c.Resources.v))
    \cup UNION { Range(e.Request.v) \cup Range(e.Response.v) :
                 e \in Range(Values(c.Endpoints.v)) }

\* transformJSONSchema(root, (schema) => schema) on a schema of the contract
TransformJSONSchema(root) ==
    /\ pc = "idle"
    /\ input' = root
    /\ output' = transformJSONSchema(root, "identity", <<>>, 0).v
    /\ pc' = "transformJSONSchema: done"
    /\ UNCHANGED <<spec, spec0, file, flags, copy, result, verdict, routes>>

\* transformJSONSchema(root, recordVisit) on a schema of the contract
VisitJSONSchema(root) ==
    /\ pc = "idle"
    /\ input' = root
    /\ output' = transformJSONSchema(root, "recordVisit", <<>>, 0).v
    /\ pc' = "transformJSONSchema: visited"
    /\ UNCHANGED <<spec, spec0, file, flags, copy, result, verdict, routes>>

\* what an operation leaves behind: the error it threw, or what it returned
Finished(r) ==
    /\ verdict' = r.err
    /\ result' = IF r.err = NoError THEN r.v ELSE NoContract

\* loadSchemaFromFile(filename, assumptions)
LoadSchemaFromFile(assumptions) ==
    /\ pc = "written"
    /\ Finished(loadSchemaFromFile(file, assumptions))
    /\ flags' = assumptions
    /\ pc' = "loadSchemaFromFile: done"
    /\ UNCHANGED <<spec, spec0, file, copy, routes, input, output>>

\* what a registration leaves behind
Registered(r) == verdict' = r.err /\ routes' = r.routes

\* implementSchema(spec, { implementation, introspection: undefined, .. })
\* on a new router; the implementation has a handler for every endpoint
\* key of the contract, as its type requires, in the contract's order
ImplementSchema ==
    /\ pc = "idle"
    /\ IsOneSchemaDefinition(spec)
    /\ Registered(implementSchema(spec.Endpoints.v, routes))
    /\ pc' = "implementSchema: done"
    /\ UNCHANGED <<spec, spec0, file, flags, copy, result, input, output>>

\* implementRoute(route, router, ...) for one endpoint key of the contract
ImplementRoute(i) ==
    /\ pc = "idle"
    /\ IsOneSchemaDefinition(spec)
    /\ Registered(implementRoute(spec.Endpoints.v[i][1], routes))
    /\ pc' = "implementRoute: done"
    /\ UNCHANGED <<spec, spec0, file, flags, copy, result, input, output>>

\* generateEndpointTypes(spec), up to the call of the compiler
GenerateEndpointTypes ==
    /\ pc = "idle"
    /\ IsOneSchemaDefinition(spec)
    /\ output' = masterSchema(spec.Resources, spec.Endpoints.v)
    /\ pc' = "generateEndpointTypes: done"
    /\ UNCHANGED <<spec, spec0, file, flags, copy, result, verdict, routes, input>>

\* what a conversion leaves behind: the error thrown, or the value built
Built(r) == verdict' = r.err /\ output' = r.v

\* toOpenAPISpec(spec, { info })
ToOpenAPISpec ==
    /\ pc = "idle"
    /\ IsOneSchemaDefinition(spec)
    /\ Built(toOpenAPISpec(spec))
    /\ pc' = "toOpenAPISpec: done"
    /\ UNCHANGED <<spec, spec0, file, flags, copy, result, routes, input>>

\* what fromOpenAPISpec leaves behind: the error or the contract returned,
\* and its local `schema`
Parsed(r) == Finished(r) /\ output' = r.v

\* fromOpenAPISpec(input) on a document, or on the document toOpenAPISpec
\* returned for the contract
FromOpenAPISpec ==
    /\ \/ pc = "idle" /\ input # NoInput /\ ~IsPagination(input) /\ ~IsRun(input)
          /\ ~IsRouterConfig(input)
          /\ input' = input
       \/ pc = "toOpenAPISpec: done" /\ verdict = NoError /\ input' = output
    /\ Parsed(fromOpenAPISpec(input'))
    /\ pc' = "fromOpenAPISpec: done"
    /\ UNCHANGED <<spec, spec0, file, flags, copy, routes>>

\* a call of the method the generated client has for endpoint i; the
\* client is generated for contracts validateSchema accepts
ClientRequest ==
    /\ pc = "idle"
    /\ spec \in ClientContracts
    /\ validateSchema(spec) = NoError
    /\ \E i \in DOMAIN spec.Endpoints.v, data \in CallData :
          /\ input' = data
          /\ output' = clientRequest(spec.Endpoints.v[i][1], data)
    /\ pc' = "request: done"
    /\ UNCHANGED <<spec, spec0, file, flags, copy, result, verdict, routes>>

\* paginate: an iteration's call of the client method, up to the await
PaginateCall ==
    /\ \/ pc = "idle" /\ IsPagination(input)
          /\ output' = paginateCall(paginateStart, input.data)
       \/ pc = "paginate: next"
          /\ output' = paginateCall(output, input.data)
    /\ pc' = "paginate: await"
    /\ UNCHANGED <<spec, spec0, file, flags, copy, result, verdict, routes,
                   input>>

\* paginate: the awaited response arrives; the loop goes on or returns
PaginateResume ==
    /\ pc = "paginate: await"
    /\ output' = paginateResume(output, input.script[Len(output.calls)])
    /\ pc' = IF hasNextPageToken(output'.nextPageParams)
             THEN "paginate: next" ELSE "paginate: done"
    /\ UNCHANGED <<spec, spec0, file, flags, copy, result, verdict, routes,
                   input>>

\* the handler of a route, step 1: parse, which may throw
HandlerParse ==
    /\ pc = "idle" /\ IsRun(input)
    /\ output' = handlerParse(input, contextOf(input))
    /\ pc' = IF output'.threw # 0 THEN "handler: threw" ELSE "handler: parsed"
    /\ UNCHANGED <<spec, spec0, file, flags, copy, result, verdict, routes,
                   input>>

\* step 2: the implementation is awaited, and may throw
HandlerImplementation ==
    /\ pc = "handler: parsed"
    /\ output' = handlerImplementation(input, output)
    /\ pc' = IF output'.threw # 0 THEN "handler: threw" ELSE "handler: returned"
    /\ UNCHANGED <<spec, spec0, file, flags, copy, result, verdict, routes,
                   input>>

\* step 3: the response
HandlerRespond ==
    /\ pc = "handler: returned"
    /\ output' = handlerRespond(output)
    /\ pc' = "handler: done"
    /\ UNCHANGED <<spec, spec0, file, flags, copy, result, verdict, routes,
                   input>>

\* a declare call on the router; output records the schema before the
\* call, the endpoint declared, the error and the number of calls so far
Declare(endpoint) ==
    /\ \/ pc = "idle" /\ IsRouterConfig(input)
       \/ pc = "declare: done" /\ output.calls < MaxDeclares
    /\ LET before == IF pc = "idle" THEN create ELSE output.schema
           calls == IF pc = "idle" THEN 0 ELSE output.calls
           r == declare(before, endpoint)
       IN output' = [schema |-> r.schema, err |-> r.err, before |-> before,
                     endpoint |-> endpoint, calls |-> calls + 1]
    /\ pc' = "declare: done"
    /\ UNCHANGED <<spec, spec0, file, flags, copy, result, verdict, routes,
                   input>>

Next ==
    \/ ValidateSchema
    \/ \E overrides \in SchemaAssumptions : WithAssumptions(overrides)
    \/ NoAdditionalPropertiesPass
    \/ RequiredPass
    \/ PrunePass
    \/ Return
    \/ \E introspection \in BOOLEAN : WriteFile(introspection)
    \/ \E assumptions \in SchemaAssumptions : LoadSchemaFromFile(assumptions)
    \/ ImplementSchema
    \/ \E i \in DOMAIN spec.Endpoints.v : ImplementRoute(i)
    \/ \E root \in RootSchemas(spec) : TransformJSONSchema(root)
    \/ \E root \in RootSchemas(spec) : VisitJSONSchema(root)
    \/ GenerateEndpointTypes
    \/ ToOpenAPISpec
    \/ FromOpenAPISpec
    \/ ClientRequest
    \/ PaginateCall
    \/ PaginateResume
    \/ HandlerParse
    \/ HandlerImplementation
    \/ HandlerRespond
    \/ \E endpoint \in Declarations : Declare(endpoint)

Spec == Init /\ [][Next]_vars

----------------------------------------------------------------------------
(* validateSchema: what the contract says of its verdict *)

Validated == pc = "validateSchema: done"

EndpointKey(i) == spec.Endpoints.v[i][1]
RequestOf(i) == spec.Endpoints.v[i][2].Request
Registry == IF spec.Resources.st = "some" THEN spec.Resources.v ELSE <<>>

\* the Request of endpoint i after $ref resolution against Resources
Resolved(i) == withResolvedDefinitions(RequestOf(i).v[1], Registry)

\* the loop of validateSchema reaches endpoint i
Reaches(i) ==
    /\ ONE_SCHEMA_META_SCHEMA(spec)
    /\ \A j \in 1..(i - 1) :
          checkEndpoint(EndpointKey(j), spec.Endpoints.v[j][2], spec.Resources)
              = NoError

\* the path parameters of endpoint i that are property names of its
\* resolved Request
Colliding(i) ==
    { p \in Range(getPathParams(EndpointKey(i))) :
        p \in Range(Keys(Resolved(i).v.properties.v)) }

\* endpoint i has a Request that resolves to an object schema, or to one
\* without a type
ObjectRequest(i) ==
    /\ RequestOf(i).st = "some"
    /\ Resolved(i).err = NoError
    /\ Resolved(i).v.type \in {"absent", "object"}

\* C1: validateSchema fails with the collision error naming the parameter
\* and the endpoint key whenever a path parameter of the key is a property
\* name of the endpoint's resolved Request, and reports no collision when no
\* path parameter is such a property.
C1_CollisionIffSharedName ==
    Validated =>
        /\ \A i \in DOMAIN spec.Endpoints.v :
              (Reaches(i) /\ ObjectRequest(i) /\ Colliding(i) # {}) =>
                  /\ verdict.kind = "ParameterCollision"
                  /\ verdict.endpoint = EndpointKey(i)
                  /\ verdict.param \in Colliding(i)
        /\ verdict.kind = "ParameterCollision" =>
              \E i \in DOMAIN spec.Endpoints.v :
                  /\ verdict.endpoint = EndpointKey(i)
                  /\ ObjectRequest(i)
                  /\ verdict.param \in Colliding(i)

\* endpoint i has a Request that resolves to a schema whose type is not
\* 'object'
NonObject(i) ==
    /\ RequestOf(i).st = "some"
    /\ Resolved(i).err = NoError
    /\ Resolved(i).v.type \notin {"absent", "object"}

\* C2: validateSchema fails with the non-object Request error naming the
\* endpoint key whenever the endpoint's resolved Request declares a type
\* other than 'object'; an endpoint without a Request, or with a Request
\* that declares no type, raises no such error, and a contract none of
\* whose endpoints has a Request is accepted.
C2_NonObjectRequestRejected ==
    Validated =>
        /\ \A i \in DOMAIN spec.Endpoints.v :
              (Reaches(i) /\ NonObject(i)) =>
                  /\ verdict.kind = "NonObjectRequest"
                  /\ verdict.endpoint = EndpointKey(i)
        /\ verdict.kind = "NonObjectRequest" =>
              \E i \in DOMAIN spec.Endpoints.v :
                  verdict.endpoint = EndpointKey(i) /\ NonObject(i)
        /\ (/\ ONE_SCHEMA_META_SCHEMA(spec)
            /\ \A i \in DOMAIN spec.Endpoints.v : RequestOf(i).st # "some")
              => verdict = NoError

\* validateSchema met a Request that is a $ref to a resource whose type is
\* not 'object', and threw the error naming the endpoint
C2_Witness ==
    /\ Validated
    /\ verdict.kind = "NonObjectRequest"
    /\ \E i \in DOMAIN spec.Endpoints.v :
          /\ verdict.endpoint = EndpointKey(i)
          /\ RequestOf(i).v[1].ref.st = "some"
          /\ NonObject(i)

\* '#/definitions/<Name>'
IsDefinitionPointer(ref) ==
    LET parts == split(ref, "/")
    IN /\ Len(parts) = 3
       /\ parts[1] = <<"#">>
       /\ parts[2] = <<"d","e","f","i","n","i","t","i","o","n","s">>
       /\ parts[3] # <<>>

\* the Request of endpoint i is a $ref that names no resource
BrokenReference(i) ==
    /\ RequestOf(i).st = "some"
    /\ RequestOf(i).v[1].ref.st = "some"
    /\ \/ ~IsDefinitionPointer(RequestOf(i).v[1].ref.v)
       \/ ~HasKey(Registry, split(RequestOf(i).v[1].ref.v, "/")[3])

\* C3: validateSchema, for an endpoint whose Request is a $ref that does not
\* have the shape '#/definitions/<Name>' or whose <Name> is not a key of
\* Resources, fails with the invalid-ref error for that $ref; resolution
\* never returns a schema for it.
C3_BrokenReferenceRejected ==
    Validated =>
        \A i \in DOMAIN spec.Endpoints.v :
            (Reaches(i) /\ BrokenReference(i)) =>
                /\ verdict.kind = "InvalidRef"
                /\ verdict.ref = RequestOf(i).v[1].ref.v

\* the characters of a Name are all in [a-zA-Z0-9], and there is one
IsAlphanumeric(s) ==
    s # <<>> /\ \A i \in DOMAIN s : s[i] \in Letters \cup Digits

\* the shape the contract documents: top-level keys among Resources,
\* Endpoints, Meta; Endpoints present; every endpoint with a Name and a
\* Response (Description, Request optional); every Name alphanumeric
WellShaped(s) ==
    /\ s.extraKeys \subseteq {"Meta"}
    /\ s.Endpoints.st = "some"
    /\ \A i \in DOMAIN s.Endpoints.v :
          /\ s.Endpoints.v[i][2].Name.st = "some"
          /\ s.Endpoints.v[i][2].Response.st = "some"
          /\ IsAlphanumeric(s.Endpoints.v[i][2].Name.v)

\* C4: validateSchema passes its meta-shape check exactly for the contracts
\* of the documented shape; every other contract fails with the 'Detected
\* invalid schema' error, before any per-endpoint check.
C4_MetaShapeExact ==
    Validated => (verdict.kind = "InvalidSchema" <=> ~WellShaped(spec))

----------------------------------------------------------------------------
(* Unsupported methods *)

\* const [method, path] = key.split(' ')
Method(key) == split(key, " ")[1]
Path(key) == split(key, " ")[2]

Unsupported(key) == Method(key) \notin SupportedMethods
RouteOf(key) == <<Method(key), Path(key)>>

RECURSIVE SupportedPrefix(_)
SupportedPrefix(endpoints) ==
    IF endpoints = <<>> \/ Unsupported(Head(endpoints)[1]) THEN <<>>
    ELSE <<Head(endpoints)[1]>> \o SupportedPrefix(Tail(endpoints))

----------------------------------------------------------------------------
(* withAssumptions: what the contract says of the value returned *)

\* a call that applies the assumptions to the contract `spec` has returned
Returned ==
    \/ pc = "withAssumptions: done"
    \/ pc = "loadSchemaFromFile: done" /\ verdict = NoError

\* the root schemas of contract `in` beside those that stand in their place
\* in contract `out`: resources, Requests that `in` declares, Responses
RootPairs(in, out) ==
    { <<in.Resources.v[i][2], out.Resources.v[i][2]>> :
        i \in DOMAIN in.Resources.v }
    \cup { <<in.Endpoints.v[i][2].Response.v[1],
             out.Endpoints.v[i][2].Response.v[1]>> :
             i \in DOMAIN in.Endpoints.v }
    \cup { <<in.Endpoints.v[i][2].Request.v[1],
             out.Endpoints.v[i][2].Request.v[1]>> :
             i \in { j \in DOMAIN in.Endpoints.v :
                       in.Endpoints.v[j][2].Request.st = "some" } }

\* `out` has the resources and endpoints of `in`, under the same keys and
\* Names
SameEntries(in, out) ==
    /\ out.Resources.st = in.Resources.st
    /\ Keys(out.Resources.v) = Keys(in.Resources.v)
    /\ out.Endpoints.st = in.Endpoints.st
    /\ Keys(out.Endpoints.v) = Keys(in.Endpoints.v)
    /\ \A i \in DOMAIN in.Endpoints.v :
          /\ out.Endpoints.v[i][2].Name = in.Endpoints.v[i][2].Name
          /\ out.Endpoints.v[i][2].Response.st = "some"

\* node `out` has the children of node `in`, under the same keywords and
\* property names
SameShape(in, out) ==
    /\ out.properties.st = in.properties.st
    /\ Keys(out.properties.v) = Keys(in.properties.v)
    /\ out.items.st = in.items.st
    /\ out.items.tuple = in.items.tuple
    /\ Len(out.items.v) = Len(in.items.v)
    /\ out.anyOf.st = in.anyOf.st /\ Len(out.anyOf.v) = Len(in.anyOf.v)
    /\ out.oneOf.st = in.oneOf.st /\ Len(out.oneOf.v) = Len(in.oneOf.v)
    /\ out.allOf.st = in.allOf.st /\ Len(out.allOf.v) = Len(in.allOf.v)

RECURSIVE Closed(_, _)
\* node `out` is node `in` with additionalProperties defaulted on objects,
\* here and below
Closed(in, out) ==
    /\ out.type = in.type
    /\ out.ref = in.ref
    /\ out.additionalProperties =
           IF in.type = "object" /\ in.additionalProperties = "absent"
           THEN "false" ELSE in.additionalProperties
    /\ (in.type # "object" \/ ~flags.objectPropertiesRequiredByDefault)
           => /\ out.required = in.required
    /\ ~flags.objectPropertiesRequiredByDefault => out.optional = in.optional
    /\ SameShape(in, out)
    /\ \A i \in DOMAIN Children(in) : Closed(Children(in)[i], Children(out)[i])

\* C6: with noAdditionalPropertiesOnObjects enabled, in the contract that
\* withAssumptions returns every node of type 'object' declares
\* additionalProperties: false where the input declared nothing, the
\* input's own value where it declared one; nodes of another type are
\* unchanged.
C6_ObjectsClosed ==
    (Returned /\ flags.noAdditionalPropertiesOnObjects) =>
        /\ SameEntries(spec, result)
        /\ \A pair \in RootPairs(spec, result) : Closed(pair[1], pair[2])

\* an object that declared additionalProperties: true kept it while an
\* object below it, which declared nothing, got false
C6_Witness ==
    /\ pc = "withAssumptions: done"
    /\ flags.noAdditionalPropertiesOnObjects
    /\ \E pair \in RootPairs(spec, result) :
          /\ pair[1].additionalProperties = "true"
          /\ pair[2].additionalProperties = "true"
          /\ \E i \in DOMAIN Children(pair[1]) :
                /\ Children(pair[1])[i].type = "object"
                /\ Children(pair[1])[i].additionalProperties = "absent"
                /\ Children(pair[2])[i].additionalProperties = "false"

\* JavaScript truthiness of an optional marker
Truthy(optional) == optional \in {"true", "1"}

RECURSIVE RequiredUnlessTruthy(_, _)
\* the required lists as C7 states them
RequiredUnlessTruthy(in, out) ==
    /\ out.required =
           IF /\ in.type = "object"
              /\ in.properties.st = "some" /\ in.properties.v # <<>>
              /\ in.required.st = "absent"
           THEN Some(Keys(SelectSeq(in.properties.v,
                                    LAMBDA kv : ~Truthy(kv[2].optional))))
           ELSE in.required
    /\ SameShape(in, out)
    /\ \A i \in DOMAIN Children(in) :
          RequiredUnlessTruthy(Children(in)[i], Children(out)[i])

\* C7 as stated: with objectPropertiesRequiredByDefault enabled, a node of
\* type 'object' with a non-empty properties map and no required list gets
\* as required list the property names, in order, whose schema carries no
\* truthy optional marker; a node that declares required keeps it; a node
\* with no properties or an empty properties map gets no required list.
C7_RequiredUnlessTruthy ==
    (Returned /\ flags.objectPropertiesRequiredByDefault) =>
        \A pair \in RootPairs(spec, result) :
            RequiredUnlessTruthy(pair[1], pair[2])

\* the required list of a node, from the node as the caller wrote it
ExpectedRequired(in) ==
    IF in.type = "object" /\ in.properties.st = "some"
                          /\ in.required.st = "absent"
    THEN Some(Keys(SelectSeq(in.properties.v,
                             LAMBDA kv : kv[2].optional # "true")))
    ELSE in.required

RECURSIVE RequiredUnlessOptionalTrue(_, _)
RequiredUnlessOptionalTrue(in, out) ==
    /\ out.required = ExpectedRequired(in)
    /\ SameShape(in, out)
    /\ \A i \in DOMAIN Children(in) :
          RequiredUnlessOptionalTrue(Children(in)[i], Children(out)[i])

\* C7, amended: with objectPropertiesRequiredByDefault enabled, a node of
\* type 'object' with a properties map, empty or not, and no required list
\* gets as required list the property names, in properties order, whose
\* schema does not carry optional: true (any other marker, truthy or not,
\* leaves the property required); a node that declares required keeps it;
\* a node with no properties map gets no required list, a node with an
\* empty one gets the empty list.
C7_RequiredUnlessOptionalTrue ==
    (Returned /\ flags.objectPropertiesRequiredByDefault) =>
        /\ SameEntries(spec, result)
        /\ \A pair \in RootPairs(spec, result) :
              RequiredUnlessOptionalTrue(pair[1], pair[2])

\* a node whose properties carry optional: true and a truthy marker that is
\* not true got a required list with the second name only
C7_Witness ==
    /\ pc = "withAssumptions: done"
    /\ flags.objectPropertiesRequiredByDefault
    /\ \E pair \in RootPairs(spec, result) :
          /\ pair[1].required.st = "absent"
          /\ pair[1].properties.st = "some"
          /\ \E i, j \in DOMAIN pair[1].properties.v :
                /\ pair[1].properties.v[i][2].optional = "true"
                /\ pair[1].properties.v[j][2].optional = "1"
                /\ pair[2].required = Some(<<pair[1].properties.v[j][1]>>)

----------------------------------------------------------------------------
(* The two passes of objectPropertiesRequiredByDefault *)

RECURSIVE MarkersKept(_, _)
\* node `out` is node `in` after the required pass alone: required lists
\* computed from the markers of `in`, every marker still where it was
MarkersKept(in, out) ==
    /\ out.required = ExpectedRequired(in)
    /\ out.optional = in.optional
    /\ SameShape(in, out)
    /\ \A i \in DOMAIN Children(in) :
          MarkersKept(Children(in)[i], Children(out)[i])

RECURSIVE MarkersGone(_, _)
\* node `out` is node `in` after both passes: the same required lists, and
\* no optional field here or below
MarkersGone(in, out) ==
    /\ out.required = ExpectedRequired(in)
    /\ out.optional = "absent"
    /\ SameShape(in, out)
    /\ \A i \in DOMAIN Children(in) :
          MarkersGone(Children(in)[i], Children(out)[i])

\* C8: with objectPropertiesRequiredByDefault enabled, the pass that strips
\* optional starts only after the pass that computes required has covered
\* the whole contract: when the required pass is over every marker of the
\* input is still in place and every required list, at every depth, is the
\* one the input's markers give; when the call returns the lists are the
\* same and no node carries an optional field.
C8_PruneAfterRequired ==
    /\ pc = "withAssumptions: required" =>
          \A pair \in RootPairs(spec, copy) : MarkersKept(pair[1], pair[2])
    /\ pc = "withAssumptions: pruned" =>
          \A pair \in RootPairs(spec, copy) : MarkersGone(pair[1], pair[2])
    /\ (Returned /\ flags.objectPropertiesRequiredByDefault) =>
          \A pair \in RootPairs(spec, result) : MarkersGone(pair[1], pair[2])

\* between the two passes: a nested object marked optional: true has its
\* own required list, is left out of its parent's, and still has the marker
C8_Witness ==
    /\ pc = "withAssumptions: required"
    /\ \E pair \in RootPairs(spec, copy) :
          /\ pair[1].required.st = "absent"
          /\ pair[2].required.st = "some"
          /\ \E i \in DOMAIN pair[2].properties.v :
                /\ pair[2].properties.v[i][2].optional = "true"
                /\ pair[2].properties.v[i][2].required.st = "some"
                /\ pair[1].properties.v[i][2].required.st = "absent"
                /\ pair[2].properties.v[i][1] \notin Range(pair[2].required.v)

----------------------------------------------------------------------------
(* withAssumptions: the input and the value returned *)

RECURSIVE AllFresh(_)
\* no object of the graph x existed before the call
AllFresh(x) ==
    IF IsContract(x) THEN
        /\ x.fresh
        /\ \A i \in DOMAIN x.Resources.v : AllFresh(x.Resources.v[i][2])
        /\ \A i \in DOMAIN x.Endpoints.v :
              /\ \A j \in DOMAIN x.Endpoints.v[i][2].Request.v :
                    AllFresh(x.Endpoints.v[i][2].Request.v[j])
              /\ \A j \in DOMAIN x.Endpoints.v[i][2].Response.v :
                    AllFresh(x.Endpoints.v[i][2].Response.v[j])
    ELSE x.fresh /\ \A i \in DOMAIN Children(x) : AllFresh(Children(x)[i])

\* C9: for every contract and every combination of flags, withAssumptions
\* leaves its input deep-equal to its value before the call, and the
\* contract it returns holds no object of the input, so that a write to the
\* result cannot reach the input.
C9_InputUntouched ==
    /\ spec = spec0
    /\ Returned => AllFresh(result)

\* the call changed the schemas, in a contract it returned, and the input
\* is as it was
C9_Witness ==
    /\ pc = "withAssumptions: done"
    /\ flags = DEFAULT_ASSUMPTIONS
    /\ spec = spec0
    /\ spec.Resources.st = "some"
    /\ \E pair \in RootPairs(spec, result) :
          /\ pair[1].required # pair[2].required
          /\ pair[1].additionalProperties # pair[2].additionalProperties

RECURSIVE Structure(_)
\* the JSON value of an object graph: the graph without object identities
Structure(x) ==
    LET list(l) == [i \in DOMAIN l |-> Structure(l[i])]
        map(m) == [i \in DOMAIN m |-> <<m[i][1], Structure(m[i][2])>>]
    IN IF IsContract(x) THEN
           [x EXCEPT !.fresh = FALSE,
                     !.Resources.v = map(@), !.Endpoints.v = map(@)]
       ELSE IF IsEndpoint(x) THEN
           [x EXCEPT !.Request.v = list(@), !.Response.v = list(@)]
       ELSE
           [x EXCEPT !.fresh = FALSE,
                     !.properties.v = map(@), !.items.v = list(@),
                     !.anyOf.v = list(@), !.oneOf.v = list(@),
                     !.allOf.v = list(@)]

NO_ASSUMPTIONS ==
    [noAdditionalPropertiesOnObjects |-> FALSE,
     objectPropertiesRequiredByDefault |-> FALSE]

\* C10: with both flags disabled, withAssumptions returns a contract
\* structurally equal to its input (same Resources, endpoint keys, Names,
\* Requests and Responses, an absent Request staying absent), and
\* loadSchemaFromFile returns the contract stored in the file.
C10_NoAssumptionsIdentity ==
    (Returned /\ flags = NO_ASSUMPTIONS) =>
        Structure(result) = Structure(spec)

\* loadSchemaFromFile read a contract out of an introspection response and
\* returned it: it has resources and an endpoint without a Request
C10_Witness ==
    /\ pc = "loadSchemaFromFile: done"
    /\ verdict = NoError
    /\ flags = NO_ASSUMPTIONS
    /\ "schema" \in DOMAIN file
    /\ spec.Resources.st = "some" /\ spec.Resources.v # <<>>
    /\ \E i \in DOMAIN spec.Endpoints.v : RequestOf(i).st = "absent"
    /\ \E i \in DOMAIN spec.Endpoints.v : RequestOf(i).st = "some"

----------------------------------------------------------------------------
(* transformJSONSchema with the identity *)

\* C11: for every schema node, transformJSONSchema(node, identity) is
\* deep-equal to node and holds no object of node; node is as it was.
C11_IdentityCopies ==
    pc = "transformJSONSchema: done" =>
        /\ Structure(output) = Structure(input)
        /\ AllFresh(output)
        /\ spec = spec0

\* the node copied has children under properties, and children below them
C11_Witness ==
    /\ pc = "transformJSONSchema: done"
    /\ input.properties.st = "some"
    /\ \E i \in DOMAIN input.properties.v :
          Children(input.properties.v[i][2]) # <<>>
    /\ ~input.fresh
    /\ output.fresh

----------------------------------------------------------------------------
(* loadSchemaFromFile on an introspection response *)

\* C12: loadSchemaFromFile returns the contract of an introspection
\* response (a document with a 'schema' key) as it is stored, whatever the
\* assumption flags; a plain contract file is returned with the assumptions
\* applied to the validated contract.
C12_IntrospectionSkipsAssumptions ==
    (pc = "loadSchemaFromFile: done" /\ verdict = NoError) =>
        IF "schema" \in DOMAIN file
        THEN Structure(result) = Structure(spec)
        ELSE Structure(result) = Structure(withAssumptions(deepCopy(spec), flags))

----------------------------------------------------------------------------
(* generateEndpointTypes: the composite schema *)

\* the segments of the key's path that begin with a colon, without it
PathParamNames(key) ==
    LET path == split(key, " ")[2]
    IN { Tail(part) : part \in { q \in Range(split(path, "/")) :
                                   q # <<>> /\ Head(q) = ":" } }

\* the composite's entry for endpoint i of the contract
EntryOf(i) == Lookup(output.properties, spec.Endpoints.v[i][1])

\* C13: the composite schema has definitions = Resources and exactly one
\* required property per endpoint key; each is a closed object requiring
\* exactly Request, PathParams and Response, where Request is the endpoint's
\* Request or {} when it has none, Response is the endpoint's Response, and
\* PathParams is a closed object whose properties and required list are
\* exactly the path parameters of the key, each of schema {type: 'string'}.
C13_CompositeSchema ==
    pc = "generateEndpointTypes: done" =>
        /\ output.definitions = spec.Resources
        /\ output.required = Keys(spec.Endpoints.v)
        /\ Keys(output.properties) = Keys(spec.Endpoints.v)
        /\ \A i \in DOMAIN spec.Endpoints.v :
              LET e == spec.Endpoints.v[i][2]
                  p == EntryOf(i).properties
              IN /\ EntryOf(i).type = "object"
                 /\ EntryOf(i).additionalProperties = "false"
                 /\ Range(EntryOf(i).required) = {"Request", "PathParams", "Response"}
                 /\ DOMAIN p = {"Request", "PathParams", "Response"}
                 /\ p.Request = IF e.Request.st = "some" THEN e.Request.v[1]
                                ELSE EmptySchema
                 /\ p.Response = e.Response
                 /\ p.PathParams.type = "object"
                 /\ p.PathParams.additionalProperties = "false"
                 /\ Range(p.PathParams.required) = PathParamNames(spec.Endpoints.v[i][1])
                 /\ Range(Keys(p.PathParams.properties)) = PathParamNames(spec.Endpoints.v[i][1])
                 /\ \A n \in Range(Values(p.PathParams.properties)) :
                       n = [EmptySchema EXCEPT !.type = "string"]

\* a composite for two endpoints, one with two path parameters and a
\* Request, one with neither
C13_Witness ==
    /\ pc = "generateEndpointTypes: done"
    /\ Len(output.properties) = 2
    /\ \E i, j \in DOMAIN spec.Endpoints.v :
          /\ Cardinality(PathParamNames(spec.Endpoints.v[i][1])) = 2
          /\ spec.Endpoints.v[i][2].Request.st = "some"
          /\ PathParamNames(spec.Endpoints.v[j][1]) = {}
          /\ spec.Endpoints.v[j][2].Request.st # "some"

----------------------------------------------------------------------------
(* toOpenAPISpec: what the contract says of the document *)

Converted ==
    pc = "toOpenAPISpec: done" /\ verdict = NoError

\* the operation the document holds where endpoint i of the contract belongs
OperationOf(i) ==
    LET key == split(spec.Endpoints.v[i][1], " ")
        at == toOpenAPIPathParts(key[2])
    IN IF HasKey(output.paths, at)
          /\ HasKey(Lookup(output.paths, at), toLowerCase(key[1]))
       THEN Some(Lookup(Lookup(output.paths, at), toLowerCase(key[1])))
       ELSE Absent

\* C14: for every contract validateSchema accepts, toOpenAPISpec emits
\* exactly one operation per endpoint: endpoint 'M p' is at
\* paths[p'][lower-case M] with operationId = Name, p' being p with ':name'
\* segments written '{name}'; no operation is lost or overwritten.
C14_OneOperationPerEndpoint ==
    Converted =>
        /\ \A i \in DOMAIN spec.Endpoints.v :
              /\ OperationOf(i).st = "some"
              /\ OperationOf(i).v.operationId = spec.Endpoints.v[i][2].Name
        /\ Len(Concat(Values(output.paths))) = Len(spec.Endpoints.v)

\* the document holds the operation written for endpoint i
Emitted(i) ==
    /\ OperationOf(i).st = "some"
    /\ OperationOf(i).v.operationId = spec.Endpoints.v[i][2].Name

\* endpoint i of the contract is a GET or a DELETE
UsesQuery(i) ==
    Method(EndpointKey(i)) \in {<<"G","E","T">>, <<"D","E","L","E","T","E">>}

\* <<in, name, required>> of the parameters of operation o, in order
ParametersOf(o) ==
    [n \in DOMAIN o.parameters.v |->
        <<o.parameters.v[n]["in"], o.parameters.v[n].name,
          o.parameters.v[n].required>>]

\* C15: for every GET or DELETE endpoint of a validated contract the
\* parameters are, in order: one required path entry per path parameter,
\* one query entry per top-level property of the endpoint's resolved
\* Request, then one per property of each object-typed allOf member of it;
\* a query entry is required exactly when its name is in the required list
\* of the schema declaring it, whether the Request is inline or a $ref.
C15_ParametersOfResolvedRequest ==
    Converted =>
        \A i \in DOMAIN spec.Endpoints.v :
            (UsesQuery(i) /\ Emitted(i)) =>
                LET names == getPathParameters(Path(EndpointKey(i)))
                    request == IF RequestOf(i).st = "some" THEN Resolved(i).v
                               ELSE EmptySchema
                    members == SelectSeq(request.allOf.v,
                                         LAMBDA item : item.type = "object")
                    declared(item) ==
                        [n \in DOMAIN item.properties.v |->
                            <<"query", item.properties.v[n][1],
                              item.required.st = "some"
                              /\ item.properties.v[n][1] \in Range(item.required.v)>>]
                IN ParametersOf(OperationOf(i).v) =
                       [n \in DOMAIN names |-> <<"path", names[n], TRUE>>]
                       \o declared(request)
                       \o Concat([n \in DOMAIN members |-> declared(members[n])])

\* C16: a POST, PUT or PATCH endpoint that has a Request gets a requestBody
\* whose application/json schema is the Request, $ref prefixes rewritten,
\* and no query parameter; a GET or DELETE endpoint gets no requestBody;
\* the Response of every endpoint is the application/json schema of the
\* single '200' response of its operation.
C16_BodyAndResponse ==
    Converted =>
        \A i \in DOMAIN spec.Endpoints.v :
            LET o == OperationOf(i).v
                e == spec.Endpoints.v[i][2]
            IN /\ OperationOf(i).st = "some"
               /\ Keys(o.responses) = <<"200">>
               /\ JsonSchemaOf(o.responses[1][2]).st = "some"
               /\ Structure(JsonSchemaOf(o.responses[1][2]).v[1])
                      = Structure(toComponents(e.Response.v[1]))
               /\ UsesQuery(i) => o.requestBody.st = "absent"
               /\ (Method(EndpointKey(i)) \in SupportedMethods
                   /\ ~UsesQuery(i) /\ e.Request.st = "some") =>
                      /\ o.requestBody.st = "some"
                      /\ JsonSchemaOf(o.requestBody.v).st = "some"
                      /\ Structure(JsonSchemaOf(o.requestBody.v).v[1])
                             = Structure(toComponents(e.Request.v[1]))
                      /\ \A q \in Range(ParametersOf(o)) : q[1] # "query"

----------------------------------------------------------------------------
(* fromOpenAPISpec(toOpenAPISpec(c, info)) *)

\* fromOpenAPISpec ran on the document toOpenAPISpec returns for the contract
RoundTrip ==
    /\ pc = "fromOpenAPISpec: done"
    /\ toOpenAPISpec(spec).err = NoError
    /\ input = toOpenAPISpec(spec).v

\* C17: for every contract validateSchema accepts,
\* fromOpenAPISpec(toOpenAPISpec(c, info)) returns without error a contract
\* with the same endpoint keys and, for every endpoint, the same Name, the
\* same Response and the same Request (for GET and DELETE: an object schema
\* with the same properties), $ref contracts and POST, PUT, PATCH endpoints
\* without a Request included.
C17_RoundTripPreserves ==
    RoundTrip =>
        /\ verdict = NoError
        /\ Range(Keys(result.Endpoints.v)) = Range(Keys(spec.Endpoints.v))
        /\ \A i \in DOMAIN spec.Endpoints.v :
              LET e == spec.Endpoints.v[i][2]
                  back == Lookup(result.Endpoints.v, EndpointKey(i))
              IN /\ back.Name = e.Name
                 /\ Structure(back.Response.v[1]) = Structure(e.Response.v[1])
                 /\ IF UsesQuery(i)
                    THEN e.Request.st = "some" =>
                            Keys(back.Request.v[1].properties.v)
                                = Keys(e.Request.v[1].properties.v)
                    ELSE /\ back.Request.st = e.Request.st
                         /\ e.Request.st = "some" =>
                               Structure(back.Request.v[1])
                                   = Structure(e.Request.v[1])

----------------------------------------------------------------------------
(* fromOpenAPISpec: the checks on an operation *)

Imported == pc = "fromOpenAPISpec: done"

\* <<path, method, operation>> for the operations of the document that sit
\* under a recognized method
OperationsRead ==
    UNION { { <<entry[1], m[1], m[2]>> :
                m \in { x \in Range(entry[2]) :
                          x[1] \in Range(SUPPORTED_METHODS) } } :
            entry \in Range(input.paths) }

\* the success response chosen: that of the least status present
Chosen(o) ==
    LET present == { st \in {"200", "201", "202"} : HasKey(o.responses, st) }
        least == CHOOSE st \in present :
                    \A other \in present \ {st} :
                        <<st, other>> \in {<<"200", "201">>, <<"200", "202">>,
                                           <<"201", "202">>}
    IN IF present = {} THEN Absent ELSE Some(Lookup(o.responses, least))

\* the message of the first check that operation o under method fails
FirstViolation(method, o) ==
    IF o.operationId.st # "some" \/ o.operationId.v = <<>>
    THEN "No operationId on path."
    ELSE IF Chosen(o).st # "some"
    THEN "No success response found for operation"
    ELSE IF JsonSchemaOf(Chosen(o).v).st # "some"
    THEN "No JSON response found for operation"
    ELSE IF method \notin {<<"p","o","s","t">>, <<"p","u","t">>,
                           <<"p","a","t","c","h">>}
    THEN "none"
    ELSE IF o.requestBody.st # "some"
    THEN "No request body defined for operation"
    ELSE IF o.requestBody.v.content.st # "some"
    THEN "No request body content defined for operation"
    ELSE IF JsonSchemaOf(o.requestBody.v).st # "some"
    THEN "No JSON request body defined for operation"
    ELSE "none"

\* the endpoint key fromOpenAPISpec gives an operation read
KeyFor(op) == toUpperCase(op[2]) \o <<" ">> \o translateOpenAPIPath(op[1])

\* the endpoint built for an operation read from the document
BuiltFor(op) == Lookup(output.Endpoints.v, KeyFor(op))

\* C18: for each operation under a recognized method, fromOpenAPISpec fails
\* on the first of: no operationId; no response under 200, 201 or 202; the
\* first present of 200, 201, 202 has no application/json schema; for
\* POST, PUT, PATCH: no requestBody, no content in it, no application/json
\* schema in it.  When no check fails, Name is the operationId, Response is
\* the JSON schema of the chosen response, and the contract built is passed
\* through validateSchema before it is returned.
C18_ChecksInOrder ==
    Imported =>
        IF \E op \in OperationsRead : FirstViolation(op[2], op[3]) # "none"
        THEN /\ \E op \in OperationsRead :
                   /\ FirstViolation(op[2], op[3]) # "none"
                   /\ verdict.kind = FirstViolation(op[2], op[3])
             /\ result = NoContract
        ELSE /\ \A op \in OperationsRead :
                   /\ BuiltFor(op).Name = op[3].operationId
                   /\ BuiltFor(op).Response = JsonSchemaOf(Chosen(op[3]).v)
             /\ verdict = validateSchema(output)
             /\ result = IF verdict = NoError THEN output ELSE NoContract

\* an operation under post passes every check; its success response is the
\* one under 201, a 202 response being present too
C18_Witness ==
    /\ Imported
    /\ \E op \in OperationsRead :
          /\ op[2] = <<"p","o","s","t">>
          /\ FirstViolation(op[2], op[3]) = "none"
          /\ Keys(op[3].responses) = <<"201", "202">>
          /\ BuiltFor(op).Name = op[3].operationId
    /\ Len(output.Endpoints.v) = 1

\* the 'in: query' parameters of an operation
QueryParameters(o) == { q \in Range(o.parameters.v) : q["in"] = "query" }

\* C19: for every GET or DELETE operation the Request built is a closed
\* object schema with exactly one property per 'in: query' parameter and a
\* required list of exactly the names of the query parameters marked
\* required; a query parameter without a schema gets {type: 'string'} with
\* its description; path, header and cookie parameters give no property,
\* and an operation under another method than get, post, put, patch, delete
\* gives no endpoint.
C19_QueryParametersRebuilt ==
    Imported =>
        /\ Range(Keys(output.Endpoints.v)) \subseteq
               { KeyFor(op) : op \in OperationsRead }
        /\ \A op \in OperationsRead :
              (/\ op[2] \in {<<"g","e","t">>, <<"d","e","l","e","t","e">>}
               /\ HasKey(output.Endpoints.v, KeyFor(op))) =>
                  LET rq == BuiltFor(op).Request.v[1]
                  IN /\ rq.type = "object"
                     /\ rq.additionalProperties = "false"
                     /\ Len(rq.properties.v) = Cardinality(QueryParameters(op[3]))
                     /\ Range(rq.required.v) =
                            { q.name : q \in { x \in QueryParameters(op[3]) :
                                                 x.required } }
                     /\ \A q \in QueryParameters(op[3]) :
                           /\ HasKey(rq.properties.v, q.name)
                           /\ LET property == Lookup(rq.properties.v, q.name)
                              IN IF q.schema.st = "some"
                                 THEN property = q.schema.v[1]
                                 ELSE /\ property.type = "string"
                                      /\ Jsonify(property.description)
                                             = q.description

\* a get operation with a path, a header and three query parameters, two of
\* them without a schema, one of these described, passed every check
C19_Witness ==
    /\ Imported
    /\ \E op \in OperationsRead :
          /\ op[2] = <<"g","e","t">>
          /\ HasKey(output.Endpoints.v, KeyFor(op))
          /\ Cardinality(QueryParameters(op[3])) = 3
          /\ \E q \in QueryParameters(op[3]) :
                q.schema.st = "absent" /\ q.description.st = "some"
          /\ \E q \in Range(op[3].parameters.v) : q["in"] = "header"
          /\ Len(BuiltFor(op).Request.v[1].required.v) = 2

----------------------------------------------------------------------------
(* The request of a generated client method *)

\* the endpoint key whose method was called
Called ==
    CHOOSE key \in Range(Keys(spec.Endpoints.v)) :
        output = clientRequest(key, input)

\* the path of the key with every ':name' segment replaced by the encoded
\* value the data has under name
ExpectedUrl(key) ==
    LET parts == split(Path(key), "/")
    IN join([i \in DOMAIN parts |->
                IF startsWith(parts[i], ":") /\ HasKey(input, Tail(parts[i]))
                THEN encodeURIComponent(Lookup(input, Tail(parts[i])))
                ELSE parts[i]], "/")

\* C20: for every endpoint of a validated contract and every call input the
\* generated method issues one request whose URL is the endpoint path with
\* each ':name' replaced by the percent-encoded input[name] and whose query
\* (GET, DELETE) or body (other methods) holds exactly the input keys that
\* are not path parameters of the endpoint and whose value is not
\* undefined: none of these is dropped or altered.
C20_RequestOfClient ==
    pc = "request: done" =>
        LET forwarded ==
                SelectSeq(input, LAMBDA entry :
                    /\ entry[2].st # "undefined"
                    /\ entry[1] \notin PathParamNames(Called))
            sent == IF Method(Called) \in {<<"G","E","T">>, <<"D","E","L","E","T","E">>}
                    THEN output.params ELSE output.data
        IN /\ output.url = ExpectedUrl(Called)
           /\ sent = Some(forwarded)

----------------------------------------------------------------------------
(* paginate: calls and result *)

Paginated == pc = "paginate: done"
Paginating == pc \in {"paginate: await", "paginate: next", "paginate: done"}

\* the index of the first response of the script that omits links.next
FirstWithoutNext(script) ==
    CHOOSE k \in DOMAIN script :
        /\ script[k].next.st = "absent"
        /\ \A j \in 1..(k - 1) : script[j].next.st # "absent"

\* C21: paginate has at most one call outstanding, and when it returns it
\* has made exactly k calls, k being the first response without links.next,
\* and returns the items of responses 1..k in call order
C21_CallsUntilNoNext ==
    /\ Paginating => output.outstanding <= 1
    /\ Paginated =>
          LET k == FirstWithoutNext(input.script)
          IN /\ Len(output.calls) = k
             /\ output.result =
                   Concat([i \in 1..k |-> input.script[i].items])

\* the value a call's input has under a key, undefined when it has none
Given(call, key) == IF HasKey(call, key) THEN Lookup(call, key) ELSE Undefined

\* C22: the first call of paginate receives the initial input; call i+1
\* receives the nextPageToken parsed from response i's links.next and the
\* initial input's other keys unchanged
C22_TokenOfPrecedingResponse ==
    Paginating =>
        /\ output.calls[1] = input.data
        /\ \A i \in 1..(Len(output.calls) - 1) :
              /\ Given(output.calls[i + 1], sNextPageToken) =
                    Given(parseQueryParamsFromPagingLink(
                              input.script[i].next.v), sNextPageToken)
              /\ \A n \in DOMAIN input.data :
                    input.data[n][1] # sNextPageToken =>
                        Given(output.calls[i + 1], input.data[n][1]) =
                            input.data[n][2]

----------------------------------------------------------------------------
(* The handler of a route *)

Handling == pc \in {"handler: parsed", "handler: returned", "handler: threw",
                    "handler: done"}
Handled == pc \in {"handler: threw", "handler: done"}

\* the value has every key of the shape with the type the shape requires
Conforms(value, shape) ==
    \A i \in DOMAIN shape :
        \E j \in DOMAIN value.v :
            value.v[j][1] = shape[i][1] /\ value.v[j][2].t = shape[i][2]

\* the value without the keys the shape does not have
Stripped(value, shape) ==
    Some(SelectSeq(value.v, LAMBDA e : \E i \in DOMAIN shape : shape[i][1] = e[1]))

Success(status) == 200 <= status /\ status < 300

\* C23: as stated: once the implementation has been called, the handler
\* ends with the value it returned as the response body, unchanged, and a
\* success status, whether or not the value conforms to the response schema
C23_NeverValidatesResponses ==
    Handled /\ output.invoked =>
        /\ pc = "handler: done"
        /\ output.body = input.returns
        /\ Success(output.status)

\* C23, amended: that holds of the routes of implementSchema; a route of
\* OneSchemaRouter.implement answers a value that does not conform to the
\* response schema with a 500 and no body, and a conforming value with the
\* keys outside the schema removed
C23_OnlyRouterValidatesResponses ==
    Handled /\ output.invoked =>
        IF input.via = "OneSchemaRouter.implement"
           /\ ~Conforms(input.returns, input.endpoint.response)
        THEN /\ pc = "handler: threw"
             /\ output.threw = 500
             /\ output.body = Undefined
        ELSE /\ pc = "handler: done"
             /\ Success(output.status)
             /\ output.body =
                   IF input.via = "OneSchemaRouter.implement"
                   THEN Stripped(input.returns, input.endpoint.response)
                   ELSE input.returns

C23_Witness ==
    /\ pc = "handler: threw"
    /\ input.via = "OneSchemaRouter.implement"
    /\ output.invoked
    /\ ~Conforms(input.returns, input.endpoint.response)
    /\ output.threw = 500

\* C24: after the implementation has returned, the handler ends with the
\* returned value as the body and with the status the implementation set
\* when that is in [200, 300), with 200 otherwise
C24_StatusKeptOr200 ==
    pc = "handler: done" =>
        /\ output.body = output.response
        /\ input.via = "implementSchema" => output.body = input.returns
        /\ output.status = IF input.sets \in 200..299 THEN input.sets ELSE 200

C24_Witness ==
    /\ pc = "handler: done"
    /\ input.via = "implementSchema"
    /\ input.sets = 301
    /\ output.status = 200

\* parse throws for the request of the run
Rejected(run) ==
    IF run.via = "OneSchemaRouter.implement"
    THEN ~Conforms(run.data, run.endpoint.request)
    ELSE run.parse = "throw"

\* C26: the implementation is called only after parse has returned, and then
\* finds what parse returned in place of the query or body; when parse
\* rejects the request the implementation is not called, the body is not
\* set and the status is not 200
C26_ParseBeforeImplementation ==
    Handling =>
        /\ pc = "handler: parsed" => ~output.invoked
        /\ output.invoked =>
              /\ ~Rejected(input)
              /\ output.parsed # Undefined
              /\ output.seen = output.parsed
        /\ Rejected(input) =>
              /\ pc = "handler: threw"
              /\ output.threw = 400
              /\ ~output.invoked
              /\ output.body = Undefined
              /\ output.status # 200

C26_Witness ==
    /\ pc = "handler: done"
    /\ input.parse = "defaults"
    /\ output.seen # input.data

----------------------------------------------------------------------------
(* OneSchemaRouter.declare *)

Declared == pc = "declare: done"

NamesOf(schema) == [i \in DOMAIN schema |-> schema[i][2].name]

\* C25: after any sequence of declare calls the names of the declared
\* endpoints are pairwise distinct, and a declare of a name already
\* declared throws and leaves the router's schema as it was
C25_NamesDistinct ==
    Declared =>
        /\ \A i, j \in DOMAIN output.schema :
              i # j => NamesOf(output.schema)[i] # NamesOf(output.schema)[j]
        /\ output.endpoint.name \in Range(NamesOf(output.before)) =>
              /\ output.err = Threw("MultipleEndpointsSameName")
              /\ output.schema = output.before
        /\ output.endpoint.name \notin Range(NamesOf(output.before)) =>
              /\ output.err = NoError
              /\ HasKey(output.schema, output.endpoint.route)
              /\ Lookup(output.schema, output.endpoint.route) = output.endpoint

C25_Witness ==
    /\ Declared
    /\ output.err = Threw("MultipleEndpointsSameName")
    /\ output.endpoint.route \notin Range(Keys(output.before))
    /\ Len(output.schema) = 2

----------------------------------------------------------------------------
(* transformJSONSchema: the calls of the callback *)

RECURSIVE VisitedOnce(_, _)
\* node `out` is node `in` after exactly one call of recordVisit, made when
\* its children had had theirs; the same holds of the children, which stand
\* under the keys and at the places they had; the child recordVisit added
\* has had no call
VisitedOnce(in, out) ==
    LET same(a, b) ==
            Len(a) = Len(b) /\ \A i \in DOMAIN a : VisitedOnce(a[i], b[i])
    IN /\ out.type = in.type
       /\ out.required =
             Some((IF in.required.st = "some" THEN in.required.v ELSE <<>>)
                  \o << <<"*">> >>)
       /\ Keys(out.properties.v) = Keys(in.properties.v)
       /\ same(Values(in.properties.v), Values(out.properties.v))
       /\ out.items.tuple = in.items.tuple
       /\ same(in.items.v, out.items.v)
       /\ same(in.oneOf.v, out.oneOf.v)
       /\ same(in.allOf.v, out.allOf.v)
       /\ IF in.anyOf.st = "some" THEN same(in.anyOf.v, out.anyOf.v)
          ELSE out.anyOf = Some(<<EmptySchema>>)

\* C27: transformJSONSchema calls the callback exactly once for every node
\* reachable through properties, items, anyOf, oneOf and allOf, for a node
\* after its children; what the callback returns is not visited again, and
\* keys and list members keep their order
C27_PostOrderOnce ==
    pc = "transformJSONSchema: visited" => VisitedOnce(input, output)

\* the root has two properties, one of them with children of its own
C27_Witness ==
    /\ pc = "transformJSONSchema: visited"
    /\ input.properties.st = "some"
    /\ Len(input.properties.v) = 2
    /\ \E i \in DOMAIN input.properties.v :
          Children(input.properties.v[i][2]) # <<>>
    /\ output.anyOf = Some(<<EmptySchema>>)

----------------------------------------------------------------------------
(* withResolvedDefinitions on registries whose resources refer to each other *)

RECURSIVE NoRef(_)
\* no node with a $ref is reachable from n
NoRef(n) == n.ref.st # "some" /\ \A c \in Range(Children(n)) : NoRef(c)

\* the Request of endpoint i is a $ref to a resource of the registry
RefersToResource(i) ==
    /\ RequestOf(i).st = "some"
    /\ RequestOf(i).v[1].ref.st = "some"
    /\ IsDefinitionPointer(RequestOf(i).v[1].ref.v)
    /\ HasKey(Registry, split(RequestOf(i).v[1].ref.v, "/")[3])

\* C28: for an endpoint whose Request refers to a resource, whatever the
\* resources refer to, withResolvedDefinitions returns a schema from which
\* no $ref is reachable or fails with the invalid-ref error, and so
\* validateSchema ends with one of its own verdicts
C28_ResolutionTerminates ==
    Validated =>
        \A i \in DOMAIN spec.Endpoints.v :
            RefersToResource(i) =>
                /\ \/ Resolved(i).err = NoError /\ NoRef(Resolved(i).v)
                   \/ Resolved(i).err.kind = "InvalidRef"
                /\ verdict.kind # "RangeError"

----------------------------------------------------------------------------
(* withAssumptions: endpoints without a Request *)

\* C29: withAssumptions with a flag enabled returns a contract whose every
\* endpoint has a Request, the empty schema where the input had none; with
\* both flags disabled an absent Request stays absent; the endpoint keys,
\* Names and Descriptions are those of the input
C29_RequestFilled ==
    pc = "withAssumptions: done" =>
        /\ Keys(result.Endpoints.v) = Keys(spec.Endpoints.v)
        /\ \A i \in DOMAIN spec.Endpoints.v :
              LET in == spec.Endpoints.v[i][2]
                  out == result.Endpoints.v[i][2]
              IN /\ out.Name = in.Name
                 /\ out.Description = in.Description
                 /\ flags # NO_ASSUMPTIONS => out.Request.st = "some"
                 /\ in.Request.st = "absent" =>
                       IF flags = NO_ASSUMPTIONS THEN out.Request.st = "absent"
                       ELSE Structure(out.Request.v[1]) = Structure(EmptySchema)

\* one flag is enabled, and one of two endpoints had no Request
C29_Witness ==
    /\ pc = "withAssumptions: done"
    /\ flags.noAdditionalPropertiesOnObjects
    /\ ~flags.objectPropertiesRequiredByDefault
    /\ \E i, j \in DOMAIN spec.Endpoints.v :
          /\ RequestOf(i).st = "absent"
          /\ RequestOf(j).st = "some"
          /\ Structure(result.Endpoints.v[i][2].Request.v[1]) =
                Structure(EmptySchema)

----------------------------------------------------------------------------
(* toOpenAPISpec: the names of an operation's parameters *)

\* the operations of the document
Operations == Range(Values(Concat(Values(output.paths))))

\* C30: for every contract validateSchema accepts, no operation of the
\* document has a query parameter with the name of one of its path
\* parameters or of another of its query parameters, properties of allOf
\* members included
C30_ParameterNamesDistinct ==
    Converted =>
        \A o \in Operations :
            \A m, n \in DOMAIN ParametersOf(o) :
                (m # n /\ ParametersOf(o)[m][2] = ParametersOf(o)[n][2]) =>
                    /\ ParametersOf(o)[m][1] = "path"
                    /\ ParametersOf(o)[n][1] = "path"

====
